---- MODULE Spec2Model ----
(***************************************************************************)
(* Model of the iskoces translation gateway (dasmlab/iskoces).             *)
(*                                                                         *)
(* Part 1: the Python worker pool of pkg/translate (WorkerPool,            *)
(* TranslationWorker): startWorker, monitor, healthCheckWorkers and        *)
(* Translate, at the granularity of their synchronisation points (mutex    *)
(* acquisitions, channel operations, subprocess exit, socket connect),     *)
(* and WorkerPool.Close with the manageWorkers / updateMetricsLoop loops.  *)
(*                                                                         *)
(* Part 2: the asynchronous jobs of pkg/service (TranslationJob,           *)
(* JobQueue.CreateJob, JobProcessor.ProcessJob and translateChunked),      *)
(* whose translator is the worker pool of part 1.                          *)
(*                                                                         *)
(* Part 3: LanguageMapper.ToBackendCode on the two paths that call it.     *)
(*                                                                         *)
(* Part 4: splitIntoChunks and splitBySentences on texts over a small      *)
(* alphabet, and ProcessJob / translateChunked on the markdown of a        *)
(* document with a translator that replies or fails.                       *)
(*                                                                         *)
(* Part 5: the job registry (JobQueue) with CleanupOldJobs, the writes of  *)
(* the ProcessJob goroutines at the granularity of single fields, and the  *)
(* status requests of the HTTP server.                                     *)
(*                                                                         *)
(* Part 6: the synchronous handler TranslationService.Translate on every   *)
(* request over small sets of ids, languages, titles and documents, with   *)
(* a translator whose calls reply or fail.                                 *)
(***************************************************************************)
EXTENDS Integers, Sequences, FiniteSets, TLC

(* ------------------------------ bounds --------------------------------- *)

\* maxWorkers parameter of NewWorkerPool (capacity of workerReady).
maxWorkers == 1

\* Number of Translate calls made over a behaviour, each by its own goroutine.
NumCallers == 2

\* Total number of TranslationWorker records ever created by startWorker.
MaxRecs == 3

\* Largest number of chunks splitIntoChunks returns for a job's markdown.
MaxChunks == 2

\* Longest language string of a request.
MaxLangLen == 3

\* Longest markdown text of a document, in bytes.
MaxTextLen == 7

\* Largest value of JobProcessor.chunkSize.
MaxChunkSize == 4

\* Number of jobs CreateJob puts in the registry over a behaviour.
MaxJobs == 2

\* Number of status requests (handleJobStatusJSON) over a behaviour.
NumReaders == 1

\* Last instant of the clock, and the largest maxAge given to CleanupOldJobs.
MaxTime == 3
MaxAge == 2

Callers == 1..NumCallers
WorkerIds == 0..(maxWorkers - 1)

(* ------------------------------ state ---------------------------------- *)

VARIABLES
    recs,         \* every TranslationWorker record ever allocated, in order
    workers,      \* WorkerPool.workers: sequence of indices into recs
    workerReady,  \* WorkerPool.workerReady: buffered channel of record indices
    workerMu,     \* holder of WorkerPool.workerMu: "free", "hc", "mon"
    pending,      \* record appended by the running startWorker, not yet sent
    sock,         \* per worker id: record whose subprocess is bound to the path
    hcPc,         \* healthCheckWorkers position: "idle", "iter", "restart"
    hcCopy,       \* healthCheckWorkers' copy of the worker list still to visit
    pc,           \* per caller: position inside Translate
    held,         \* per caller: record received from workerReady (0 = none)
    conn,         \* per caller: record whose subprocess the connection reaches
    ctx,          \* per caller: "live", "expired" (before the call), "cancelled";
                  \* back to "live" once the call is past its exchange
    res,          \* per caller: what its Translate call returned
    metrics,      \* counters of the MetricsCollector
    shutdown,     \* WorkerPool.shutdown has been closed
    closePc,      \* position of Close: "idle", "lock", "wait", "returned"
    loops,        \* goroutines counted by WorkerPool.wg that still run
    job,          \* the TranslationJob: fields guarded by job.mu
    jobIn,        \* the request the job was created from
    jobPc,        \* position of the ProcessJob goroutine
    chunkIdx,     \* translateChunked: loop index i of the current chunk
    calls,        \* translator calls of the job, in submission order:
                  \* [kind, n] with n the chunk number (i+1) of a chunk
    replies,      \* number of translator calls of the job that returned
    langIn,       \* source and target language of a request, as received
    langOut,      \* per path: the languages handed to Translator.Translate
    doc,          \* ProcessJob on the markdown of one document: the text,
                  \* p.chunkSize, the chunks, the translator calls, the result
    jobs,         \* per job id: the job's fields, and whether q.jobs has it
    jobsMu,       \* holder of JobQueue.jobsMu: "free", "gc"
    jobMu,        \* per job id: holder of the job's mu
    clock,        \* time.Now()
    gc,           \* CleanupOldJobs: position, its now, maxAge, jobs to visit
    procPc,       \* per job id: position of the goroutine that writes the job
    rd,           \* per reader: position of handleJobStatusJSON, its job,
                  \* the status GetStatus returned
    rpc           \* TranslationService.Translate: position, request,
                  \* translator calls made, what it returned

poolVars == <<recs, workers, workerReady, workerMu, pending, sock>>
hcVars == <<hcPc, hcCopy>>
callVars == <<pc, held, conn, ctx, res>>
closeVars == <<shutdown, closePc, loops>>
jobVars == <<job, jobIn, jobPc, chunkIdx, calls, replies>>
langVars == <<langIn, langOut>>
docVars == <<doc>>
regVars == <<jobs, jobsMu, jobMu, clock, gc, procPc, rd>>

\* Everything outside the pool, its callers and its metrics.
nonPoolVars == <<closeVars, jobVars, langVars, docVars, regVars, rpc>>

vars == <<recs, workers, workerReady, workerMu, pending, sock,
          hcPc, hcCopy, pc, held, conn, ctx, res, metrics,
          closeVars, jobVars, langVars, docVars, regVars, rpc>>

(* ----------------------------- helpers --------------------------------- *)

\* A freshly allocated TranslationWorker: busy is the zero value, the
\* subprocess is running, Wait has not returned, no monitor goroutine yet.
NewWorker(id) ==
    [id |-> id, busy |-> FALSE, proc |-> "running", ps |-> FALSE,
     mon |-> "none", killedHeld |-> FALSE]

\* Channel send / receive on workerReady.
Send(ch, w) == Append(ch, w)

RecvNoDequeue(ch) == ch

Recv(ch) == Tail(ch)

ChanFull == Len(workerReady) >= maxWorkers

\* worker.busy = true under worker.mu
MarkBusy(w) == [w EXCEPT !.busy = TRUE]

ClearBusyNoOp(w) == w

\* worker.busy = false under worker.mu (deferred release in Translate)
ClearBusy(w) == [w EXCEPT !.busy = FALSE]

\* Index in list of the first record whose id is id (0 when none).
RECURSIVE FirstWithId(_, _, _)
FirstWithId(list, id, i) ==
    IF i > Len(list) THEN 0
    ELSE IF recs[list[i]].id = id THEN i
    ELSE FirstWithId(list, id, i + 1)

\* append(p.workers[:i], p.workers[i+1:]...)
RemoveAt(list, i) ==
    [j \in 1..(Len(list) - 1) |-> IF j < i THEN list[j] ELSE list[j + 1]]

\* A connect to worker-<id>.sock reaches the subprocess bound to that path.
Listening(id) == sock[id] # 0 /\ recs[sock[id]].proc = "running"

Bump(field) == [metrics EXCEPT ![field] = @ + 1]

BumpRestart(id) ==
    [metrics EXCEPT !.restarts = [@ EXCEPT ![id] = @ + 1]]

\* RecordTranslationRequest(_, success, _, _)
RecordRequestSuccessOnly(m, success) ==
    IF success THEN [m EXCEPT !.reqSuccess = @ + 1] ELSE m

RecordRequest(m, success) ==
    IF success THEN [m EXCEPT !.reqSuccess = @ + 1]
    ELSE [m EXCEPT !.reqError = @ + 1]

(* ------------------------------- Init ---------------------------------- *)

\* NewWorkerPool: the shutdown channel is open and the two loops counted by
\* wg (manageWorkers, updateMetricsLoop) have been started; Close has not
\* been called.
CloseIdle ==
    /\ shutdown = FALSE
    /\ closePc = "idle"
    /\ loops = {"manageWorkers", "updateMetricsLoop"}

\* NewJobQueue: no job has been created.
NoJob ==
    [status |-> "none", percent |-> 0, startedAt |-> FALSE,
     completedAt |-> FALSE, error |-> FALSE, result |-> FALSE]

NoRequest ==
    [primitive |-> "none", doc |-> FALSE, title |-> FALSE,
     markdown |-> "empty", chunks |-> 0, translator |-> FALSE]

JobIdle ==
    /\ job = NoJob
    /\ jobIn = NoRequest
    /\ jobPc = "none"
    /\ chunkIdx = 0
    /\ calls = << >>
    /\ replies = 0

\* Nothing has been handed to the translator on a path.
NotSent == [state |-> "none", src |-> << >>, tgt |-> << >>]

\* No request has been received on either path.
LangIdle ==
    /\ langIn = << >>
    /\ langOut = [sync |-> NotSent, job |-> NotSent]

\* ProcessJob has not reached the markdown of a document.
NoDoc ==
    [pc |-> "none", text |-> << >>, chunkSize |-> 0, split |-> FALSE,
     chunks |-> << >>, units |-> << >>, i |-> 0, sent |-> << >>,
     out |-> << >>, md |-> << >>, result |-> << >>, errChunk |-> 0,
     log |-> << >>]

DocIdle == doc = NoDoc

\* The job identifiers of the registry and the tasks that read a job.
JobIds == 1..MaxJobs
Readers == 1..NumReaders

\* A job that CreateJob has not made yet: it is not in q.jobs; CompletedAt
\* is nil (-1).
Absent ==
    [inMap |-> FALSE, status |-> "none", completedAt |-> -1, error |-> FALSE]

\* A status request that has not arrived.
NoCopy == [pc |-> "idle", id |-> 0, status |-> "none"]

\* NewJobQueue: an empty registry, nothing running.
RegIdle ==
    /\ jobs = [id \in JobIds |-> Absent]
    /\ jobsMu = "free"
    /\ jobMu = [id \in JobIds |-> "free"]
    /\ clock = 0
    /\ gc = [pc |-> "idle", now |-> 0, maxAge |-> 0, todo |-> {}]
    /\ procPc = [id \in JobIds |-> "none"]
    /\ rd = [r \in Readers |-> NoCopy]

\* Nothing returned by the handler yet.
NoResponse ==
    [kind |-> "none", code |-> "", jobId |-> "", success |-> FALSE,
     errorMessage |-> "", title |-> "", markdown |-> ""]

\* No synchronous request has arrived.
SyncIdle ==
    rpc = [pc |-> "idle",
           req |-> [jobId |-> "", source |-> << >>, target |-> << >>,
                    primitive |-> "OTHER", title |-> "",
                    doc |-> [present |-> FALSE, title |-> "",
                             markdown |-> ""],
                    translator |-> FALSE],
           src |-> << >>, tgt |-> << >>, calls |-> << >>, title |-> "",
           markdown |-> "", resp |-> NoResponse]

\* The record of the worker with identifier id after NewWorkerPool, when the
\* identifiers in started were started successfully (in increasing order).
InitRec(started, id) == Cardinality({j \in started : j <= id})

\* p.workers after the pre-start loop of NewWorkerPool.
InitWorkers(started) ==
    [k \in 1..Cardinality(started) |-> k]

\* The state NewWorkerPool returns: startWorker(i) has run for i = 0 ..
\* maxWorkers-1; each call either succeeded (record appended, token sent,
\* monitor goroutine blocked in Wait) or failed and was only logged.
PoolStarted(started) ==
    /\ recs = [k \in 1..Cardinality(started) |->
                 [NewWorker(CHOOSE i \in started : InitRec(started, i) = k)
                    EXCEPT !.mon = "wait"]]
    /\ workers = InitWorkers(started)
    /\ workerReady = InitWorkers(started)
    /\ sock = [i \in WorkerIds |->
                 IF i \in started THEN InitRec(started, i) ELSE 0]
    /\ workerMu = "free"
    /\ pending = 0
    /\ hcPc = "idle"
    /\ hcCopy = << >>
    /\ pc = [c \in Callers |-> "idle"]
    /\ held = [c \in Callers |-> 0]
    /\ conn = [c \in Callers |-> 0]
    /\ ctx = [c \in Callers |-> "live"]
    /\ res = [c \in Callers |-> "none"]
    /\ metrics = [reqSuccess |-> 0, reqError |-> 0, queueWait |-> 0,
                  restarts |-> [i \in WorkerIds |-> 0]]

PoolInit == \E started \in SUBSET WorkerIds : PoolStarted(started)

\* The program after construction: the pool as NewWorkerPool returns it, no
\* Close call, no job, no request.
Init ==
    /\ PoolInit
    /\ CloseIdle
    /\ JobIdle
    /\ LangIdle
    /\ DocIdle
    /\ RegIdle
    /\ SyncIdle

(* ---------------------------- startWorker ------------------------------ *)

\* startWorker up to the channel send: lock workerMu, remove the old socket,
\* spawn the subprocess (which binds the socket path), verify the socket,
\* append the new record to p.workers.  rs is recs as the calling goroutine
\* leaves it.
StartWorkerSpawn(owner, id, rs) ==
    /\ workerMu = "free"
    /\ Len(recs) < MaxRecs
    /\ recs' = Append(rs, NewWorker(id))
    /\ workers' = Append(workers, Len(recs) + 1)
    /\ sock' = [sock EXCEPT ![id] = Len(recs) + 1]
    /\ workerMu' = owner
    /\ pending' = Len(recs) + 1
    /\ UNCHANGED workerReady

\* startWorker returning an error: cmd.Start failed, or the socket file did
\* not appear and the subprocess was killed.  The old socket file is gone.
StartWorkerFail(id, rs) ==
    /\ workerMu = "free"
    /\ recs' = rs
    /\ sock' = [sock EXCEPT ![id] = 0]
    /\ UNCHANGED <<workers, workerReady, workerMu, pending>>

\* The rest of startWorker: p.workerReady <- worker (blocks while the
\* channel is full), go worker.monitor(), deferred Unlock.
StartWorkerSend(owner, rs) ==
    /\ workerMu = owner
    /\ pending # 0
    /\ ~ChanFull
    /\ workerReady' = Send(workerReady, pending)
    /\ recs' = [rs EXCEPT ![pending].mon = "wait"]
    /\ workerMu' = "free"
    /\ pending' = 0
    /\ UNCHANGED <<workers, sock>>

(* --------------------- subprocess and monitor -------------------------- *)

\* Callers that received record r and have not connected yet.
HeldBeforeConnect(r) ==
    \E c \in Callers : held[c] = r /\ pc[c] = "marked"

\* The Python subprocess of record r exits.
Crash(r) ==
    /\ r \in 1..Len(recs)
    /\ recs[r].proc = "running"
    /\ recs' = [recs EXCEPT ![r].proc = "exited",
                            ![r].killedHeld = HeldBeforeConnect(r)]
    /\ UNCHANGED <<workers, workerReady, workerMu, pending, sock,
                   hcVars, callVars, metrics>>
    /\ UNCHANGED nonPoolVars

\* monitor: w.process.Wait() returns (ProcessState is now set); busy = false
\* and conn = nil under w.mu; RecordWorkerRestart.
MonitorMarkDead(r) ==
    /\ r \in 1..Len(recs)
    /\ recs[r].mon = "wait"
    /\ recs[r].proc = "exited"
    /\ recs' = [recs EXCEPT ![r].ps = TRUE, ![r].busy = FALSE,
                            ![r].mon = "sleep"]
    /\ metrics' = BumpRestart(recs[r].id)
    /\ UNCHANGED <<workers, workerReady, workerMu, pending, sock,
                   hcVars, callVars>>
    /\ UNCHANGED nonPoolVars

\* monitor after the 1 s sleep: w.pool.startWorker(w.id) up to the send.
MonitorRestart(r) ==
    /\ r \in 1..Len(recs)
    /\ recs[r].mon = "sleep"
    /\ StartWorkerSpawn("mon", recs[r].id, [recs EXCEPT ![r].mon = "send"])
    /\ UNCHANGED <<hcVars, callVars, metrics>>
    /\ UNCHANGED nonPoolVars

\* monitor: startWorker failed, the error is logged and the goroutine ends.
MonitorRestartFail(r) ==
    /\ r \in 1..Len(recs)
    /\ recs[r].mon = "sleep"
    /\ StartWorkerFail(recs[r].id, [recs EXCEPT ![r].mon = "done"])
    /\ UNCHANGED <<hcVars, callVars, metrics>>
    /\ UNCHANGED nonPoolVars

\* monitor: the send of its startWorker completes; the goroutine ends.
MonitorSend(r) ==
    /\ r \in 1..Len(recs)
    /\ recs[r].mon = "send"
    /\ StartWorkerSend("mon", [recs EXCEPT ![r].mon = "done"])
    /\ UNCHANGED <<hcVars, callVars, metrics>>
    /\ UNCHANGED nonPoolVars

(* ------------------------ healthCheckWorkers --------------------------- *)

\* ticker.C fires in manageWorkers: copy p.workers under RLock.
HCTick ==
    /\ "manageWorkers" \in loops
    /\ hcPc = "idle"
    /\ workerMu = "free"
    /\ hcCopy' = workers
    /\ hcPc' = "iter"
    /\ UNCHANGED <<poolVars, callVars, metrics>>
    /\ UNCHANGED nonPoolVars

\* Loop body for a worker whose ProcessState is nil or not exited.
HCSkip ==
    /\ hcPc = "iter"
    /\ hcCopy # << >>
    /\ ~recs[Head(hcCopy)].ps
    /\ hcCopy' = Tail(hcCopy)
    /\ UNCHANGED <<hcPc, poolVars, callVars, metrics>>
    /\ UNCHANGED nonPoolVars

\* Loop body for a dead worker: remove the first list entry with its id.
HCRemove ==
    /\ hcPc = "iter"
    /\ hcCopy # << >>
    /\ recs[Head(hcCopy)].ps
    /\ workerMu = "free"
    /\ LET i == FirstWithId(workers, recs[Head(hcCopy)].id, 1)
       IN  workers' = IF i = 0 THEN workers ELSE RemoveAt(workers, i)
    /\ hcPc' = "restart"
    /\ UNCHANGED <<recs, workerReady, workerMu, pending, sock, hcCopy,
                   callVars, metrics>>
    /\ UNCHANGED nonPoolVars

\* p.startWorker(worker.id) up to the send.
HCRestart ==
    /\ hcPc = "restart"
    /\ StartWorkerSpawn("hc", recs[Head(hcCopy)].id, recs)
    /\ UNCHANGED <<hcVars, callVars, metrics>>
    /\ UNCHANGED nonPoolVars

\* p.startWorker(worker.id) failed; the error is ignored, the loop goes on.
HCRestartFail ==
    /\ hcPc = "restart"
    /\ StartWorkerFail(recs[Head(hcCopy)].id, recs)
    /\ hcPc' = "iter"
    /\ hcCopy' = Tail(hcCopy)
    /\ UNCHANGED <<callVars, metrics>>
    /\ UNCHANGED nonPoolVars

\* The send of the health check's startWorker completes; the loop goes on.
HCSend ==
    /\ hcPc = "restart"
    /\ StartWorkerSend("hc", recs)
    /\ hcPc' = "iter"
    /\ hcCopy' = Tail(hcCopy)
    /\ UNCHANGED <<callVars, metrics>>
    /\ UNCHANGED nonPoolVars

\* The loop over the copy is finished.
HCDone ==
    /\ hcPc = "iter"
    /\ hcCopy = << >>
    /\ hcPc' = "idle"
    /\ UNCHANGED <<hcCopy, poolVars, callVars, metrics>>
    /\ UNCHANGED nonPoolVars

(* -------------------------- WorkerPool.Close --------------------------- *)

\* The record is in p.workers.
InList(r) == \E i \in 1..Len(workers) : workers[i] = r

\* Some record of p.workers has the identifier id (and so the socket path
\* worker-<id>.sock).
IdInList(id) == \E i \in 1..Len(workers) : recs[workers[i]].id = id

\* Close, first statement: close(p.shutdown).
CloseSignal ==
    /\ closePc = "idle"
    /\ shutdown' = TRUE
    /\ closePc' = "lock"
    /\ UNCHANGED <<loops, poolVars, hcVars, callVars, metrics,
                   jobVars, langVars, docVars, regVars, rpc>>

\* Close under workerMu: every record of p.workers has its subprocess
\* killed and its socket file removed.
CloseKill ==
    /\ closePc = "lock"
    /\ workerMu = "free"
    /\ recs' = [r \in 1..Len(recs) |->
                  IF InList(r) /\ recs[r].proc = "running"
                  THEN [recs[r] EXCEPT !.proc = "exited",
                                       !.killedHeld = HeldBeforeConnect(r)]
                  ELSE recs[r]]
    /\ sock' = [id \in WorkerIds |-> IF IdInList(id) THEN 0 ELSE sock[id]]
    /\ closePc' = "wait"
    /\ UNCHANGED <<workers, workerReady, workerMu, pending, shutdown, loops,
                   hcVars, callVars, metrics, jobVars, langVars, docVars, regVars,
                   rpc>>

\* manageWorkers or updateMetricsLoop takes the case <-p.shutdown of its
\* select and returns (deferred wg.Done).  manageWorkers is in its select
\* only between two health checks.
LoopExit(l) ==
    /\ shutdown
    /\ l \in loops
    /\ l = "manageWorkers" => hcPc = "idle"
    /\ loops' = loops \ {l}
    /\ UNCHANGED <<shutdown, closePc, poolVars, hcVars, callVars, metrics,
                   jobVars, langVars, docVars, regVars, rpc>>

\* Close: p.wg.Wait() returns, Close returns nil.
CloseReturn ==
    /\ closePc = "wait"
    /\ loops = {}
    /\ closePc' = "returned"
    /\ UNCHANGED <<shutdown, loops, poolVars, hcVars, callVars, metrics,
                   jobVars, langVars, docVars, regVars, rpc>>

(* ------------------------ WorkerPool.Translate ------------------------- *)

\* The case <-time.After(10 * time.Second) of the acquisition select.
TimerArmedOnlyWithDeadline(c) == ctx[c] # "live"

TimerArmed(c) == TRUE

\* A caller enters Translate; its context may already be expired.  Callers
\* are interchangeable and are numbered in the order of their calls.
TranslateCall(c) ==
    /\ pc[c] = "idle"
    /\ (\A d \in Callers : d < c => pc[d] # "idle")
    /\ \E k \in {"live", "expired"} : ctx' = [ctx EXCEPT ![c] = k]
    /\ pc' = [pc EXCEPT ![c] = "acquire"]
    /\ UNCHANGED <<held, conn, res, poolVars, hcVars, metrics>>
    /\ UNCHANGED nonPoolVars

\* The caller cancels its context, or its deadline passes, while the call
\* waits in the acquisition select or in the request/response exchange.
Cancel(c) ==
    /\ pc[c] \in {"acquire", "inflight"}
    /\ ctx[c] = "live"
    /\ ctx' = [ctx EXCEPT ![c] = "cancelled"]
    /\ UNCHANGED <<pc, held, conn, res, poolVars, hcVars, metrics>>
    /\ UNCHANGED nonPoolVars

\* select case worker = <-p.workerReady; RecordQueueWait; then
\* worker.busy = true and worker.lastUsed = now under worker.mu.
\* Go's select picks among its ready cases at random, so this case is
\* enabled whenever the channel holds a token, whatever ctx and timer say.
TranslateAcquire(c) ==
    /\ pc[c] = "acquire"
    /\ workerReady # << >>
    /\ held' = [held EXCEPT ![c] = Head(workerReady)]
    /\ workerReady' = Recv(workerReady)
    /\ recs' = [recs EXCEPT ![Head(workerReady)] = MarkBusy(@)]
    /\ metrics' = Bump("queueWait")
    /\ pc' = [pc EXCEPT ![c] = "marked"]
    /\ UNCHANGED <<workers, workerMu, pending, sock, conn, ctx, res, hcVars>>
    /\ UNCHANGED nonPoolVars

\* select case <-ctx.Done(): record a failed request, return ctx.Err().
TranslateCtxDone(c) ==
    /\ pc[c] = "acquire"
    /\ ctx[c] # "live"
    /\ metrics' = RecordRequest(metrics, FALSE)
    /\ res' = [res EXCEPT ![c] = "cancelled"]
    /\ pc' = [pc EXCEPT ![c] = "done"]
    /\ UNCHANGED <<held, conn, ctx, poolVars, hcVars>>
    /\ UNCHANGED nonPoolVars

\* select case <-time.After(10s): record a failed request, return the error.
TranslateTimeout(c) ==
    /\ pc[c] = "acquire"
    /\ TimerArmed(c)
    /\ metrics' = RecordRequest(metrics, FALSE)
    /\ res' = [res EXCEPT ![c] = "timeout"]
    /\ pc' = [pc EXCEPT ![c] = "done"]
    /\ UNCHANGED <<held, conn, ctx, poolVars, hcVars>>
    /\ UNCHANGED nonPoolVars

\* net.DialUnix to worker.socketPath succeeds: some subprocess listens there.
TranslateConnect(c) ==
    /\ pc[c] = "marked"
    /\ Listening(recs[held[c]].id)
    /\ conn' = [conn EXCEPT ![c] = sock[recs[held[c]].id]]
    /\ pc' = [pc EXCEPT ![c] = "inflight"]
    /\ UNCHANGED <<held, ctx, res, poolVars, hcVars, metrics>>
    /\ UNCHANGED nonPoolVars

\* net.DialUnix fails: nothing listens on the path.  The failed request is
\* recorded and the call unwinds; its context is not read any more.
TranslateConnectFail(c) ==
    /\ pc[c] = "marked"
    /\ ~Listening(recs[held[c]].id)
    /\ metrics' = RecordRequest(metrics, FALSE)
    /\ res' = [res EXCEPT ![c] = "transport"]
    /\ ctx' = [ctx EXCEPT ![c] = "live"]
    /\ pc' = [pc EXCEPT ![c] = "release"]
    /\ UNCHANGED <<held, conn, poolVars, hcVars>>
    /\ UNCHANGED nonPoolVars

\* Outcomes of the request/response exchange on an open connection.
\* A live subprocess answers success or success=false, or the encode/decode
\* fails; a subprocess that exited gives end-of-stream or a read error.
ExchangeOutcomes(r) ==
    IF recs[r].proc = "running"
    THEN {"success", "reported", "transport"}
    ELSE {"transport"}

\* Encode the request, decode the response, RecordTranslationRequest, and
\* the deferred conn.Close().  The context is not read any more.
TranslateExchange(c) ==
    /\ pc[c] = "inflight"
    /\ \E out \in ExchangeOutcomes(conn[c]) :
          /\ res' = [res EXCEPT ![c] = out]
          /\ metrics' = RecordRequest(metrics, out = "success")
    /\ conn' = [conn EXCEPT ![c] = 0]
    /\ ctx' = [ctx EXCEPT ![c] = "live"]
    /\ pc' = [pc EXCEPT ![c] = "release"]
    /\ UNCHANGED <<held, poolVars, hcVars>>
    /\ UNCHANGED nonPoolVars

\* Deferred release, first half: worker.busy = false under worker.mu.
TranslateClearBusy(c) ==
    /\ pc[c] = "release"
    /\ recs' = [recs EXCEPT ![held[c]] = ClearBusy(@)]
    /\ pc' = [pc EXCEPT ![c] = "send"]
    /\ UNCHANGED <<workers, workerReady, workerMu, pending, sock, held, conn,
                   ctx, res, hcVars, metrics>>
    /\ UNCHANGED nonPoolVars

\* Deferred release, second half: p.workerReady <- worker; Translate returns.
TranslateRelease(c) ==
    /\ pc[c] = "send"
    /\ ~ChanFull
    /\ workerReady' = Send(workerReady, held[c])
    /\ held' = [held EXCEPT ![c] = 0]
    /\ pc' = [pc EXCEPT ![c] = "done"]
    /\ UNCHANGED <<recs, workers, workerMu, pending, sock, conn, ctx, res,
                   hcVars, metrics>>
    /\ UNCHANGED nonPoolVars

(* ------------------- TranslationJob (job_queue.go) --------------------- *)

\* UpdateStatus(status, _) under job.mu: Status, and StartedAt or
\* CompletedAt when they are still nil.
UpdateStatusNoOp(j, s) == j

UpdateStatus(j, s) ==
    [j EXCEPT !.status = s,
              !.startedAt = @ \/ s = "processing",
              !.completedAt = @ \/ s \in {"completed", "failed"}]

\* UpdateProgress(percent, _) under job.mu.
UpdateProgress(j, p) == [j EXCEPT !.percent = p]

\* SetError(err) under job.mu: Error, Status = failed, CompletedAt.
SetErrorNoTimestamp(j) == [j EXCEPT !.error = TRUE, !.status = "failed"]

SetError(j) ==
    [j EXCEPT !.error = TRUE, !.status = "failed", !.completedAt = TRUE]

\* SetResult(...) under job.mu: the result fields, Status = completed,
\* CompletedAt, ProgressPercent = 100.
SetResult(j) ==
    [j EXCEPT !.result = TRUE, !.status = "completed",
              !.completedAt = TRUE, !.percent = 100]

(* ------------------- JobProcessor (job_processor.go) ------------------- *)

\* The goroutine of ProcessJob makes the job's translator calls; they are
\* the Translate calls of this caller of the pool.
JobCaller == CHOOSE c \in Callers : \A d \in Callers : c <= d

\* The requests CreateJob may be given.  markdown is "empty", "small"
\* (len <= chunkSize) or "large"; chunks is len(splitIntoChunks(...)) of a
\* large markdown; translator tells whether p.translator is non-nil.
Requests ==
    {r \in [primitive : {"TITLE", "DOC", "OTHER"}, doc : BOOLEAN,
            title : BOOLEAN, markdown : {"empty", "small", "large"},
            chunks : 0..MaxChunks, translator : BOOLEAN] :
        /\ r.primitive # "DOC" => ~r.doc
        /\ ~r.doc => (~r.title /\ r.markdown = "empty")
        /\ r.markdown # "large" => r.chunks = 0}

\* progress := 10 + int32((float64(i+1)/float64(totalChunks))*80)
ChunkProgressFromZero(i, totalChunks) == 10 + ((i * 80) \div totalChunks)

ChunkProgress(i, totalChunks) == 10 + (((i + 1) * 80) \div totalChunks)

\* The loop variable of translateChunked after one iteration.
SameChunk(i) == i

NextChunk(i) == i + 1

\* Where ProcessJob continues with the markdown of the document.
MarkdownOr == IF jobIn.markdown = "empty" THEN "finish" ELSE "markdown"

\* Where ProcessJob goes after UpdateStatus: the switch on job.Primitive.
Dispatch ==
    CASE jobIn.primitive = "TITLE" -> "title"
      [] jobIn.primitive = "DOC" /\ ~jobIn.doc -> "docnil"
      [] jobIn.primitive = "DOC" /\ jobIn.doc /\ jobIn.title -> "title"
      [] jobIn.primitive = "DOC" /\ jobIn.doc /\ ~jobIn.title -> MarkdownOr
      [] OTHER -> "result"

\* Where ProcessJob goes after job.SetError(...): it returns.
AfterErrorFallsThrough == "finish"

AfterError == "end"

\* Where translateChunked continues with loop index i.
ChunksOr(i) == IF i >= jobIn.chunks THEN "finish" ELSE "chunks"

\* p.translator.Translate(ctx, ...): the call enters WorkerPool.Translate.
\* ctx is the job's 10-minute context, whose deadline may have passed.
Submit(label) ==
    /\ pc[JobCaller] = "idle"
    /\ pc' = [pc EXCEPT ![JobCaller] = "acquire"]
    /\ \E k \in {"live", "expired"} : ctx' = [ctx EXCEPT ![JobCaller] = k]
    /\ res' = [res EXCEPT ![JobCaller] = "none"]
    /\ calls' = Append(calls, label)
    /\ UNCHANGED <<held, conn>>

\* The Translate call of the job has returned to ProcessJob.
Returned ==
    /\ pc[JobCaller] = "done"
    /\ pc' = [pc EXCEPT ![JobCaller] = "idle"]
    /\ replies' = replies + 1
    /\ UNCHANGED <<held, conn, ctx, res>>

\* JobQueue.CreateJob: a queued job is stored and go ProcessJob(job) runs.
CreateJob ==
    /\ jobPc = "none"
    /\ \E r \in Requests : jobIn' = r
    /\ job' = [NoJob EXCEPT !.status = "queued"]
    /\ jobPc' = "start"
    /\ UNCHANGED <<chunkIdx, calls, replies, poolVars, hcVars, callVars,
                   metrics, closeVars, langVars, docVars, regVars, rpc>>

\* ProcessJob: job.UpdateStatus(JobStatusProcessing, ...), then the switch.
ProcessStart ==
    /\ jobPc = "start"
    /\ job' = UpdateStatus(job, "processing")
    /\ jobPc' = Dispatch
    /\ UNCHANGED <<jobIn, chunkIdx, calls, replies, poolVars, hcVars,
                   callVars, metrics, closeVars, langVars, docVars, regVars,
                   rpc>>

\* UpdateProgress(10 | 5, "Translating title...") and the title's call.
ProcessTitle ==
    /\ jobPc = "title"
    /\ job' = UpdateProgress(job, IF jobIn.primitive = "TITLE" THEN 10 ELSE 5)
    /\ IF jobIn.translator
       THEN /\ Submit([kind |-> "title", n |-> 0])
            /\ jobPc' = "titleWait"
       ELSE /\ jobPc' = IF jobIn.primitive = "TITLE" THEN "finish"
                        ELSE MarkdownOr
            /\ UNCHANGED <<callVars, calls>>
    /\ UNCHANGED <<jobIn, chunkIdx, replies, poolVars, hcVars, metrics,
                   closeVars, langVars, docVars, regVars, rpc>>

\* The title's call returned: SetError and return on an error.
TitleReturn ==
    /\ jobPc = "titleWait"
    /\ Returned
    /\ IF res[JobCaller] = "success"
       THEN /\ jobPc' = IF jobIn.primitive = "TITLE" THEN "finish"
                        ELSE MarkdownOr
            /\ job' = job
       ELSE /\ jobPc' = AfterError
            /\ job' = SetError(job)
    /\ UNCHANGED <<jobIn, chunkIdx, calls, poolVars, hcVars, metrics,
                   closeVars, langVars, docVars, regVars, rpc>>

\* PRIMITIVE_DOC_TRANSLATE with job.Document == nil: SetError and return.
ProcessDocNil ==
    /\ jobPc = "docnil"
    /\ job' = SetError(job)
    /\ jobPc' = AfterError
    /\ UNCHANGED <<jobIn, chunkIdx, calls, replies, poolVars, hcVars,
                   callVars, metrics, closeVars, langVars, docVars, regVars,
                   rpc>>

\* UpdateProgress(10, "Translating content..."), then the markdown's call
\* or, for a markdown longer than chunkSize, the entry of translateChunked.
ProcessMarkdown ==
    /\ jobPc = "markdown"
    /\ job' = UpdateProgress(job, 10)
    /\ chunkIdx' = 0
    /\ IF jobIn.markdown = "large"
       THEN /\ jobPc' = ChunksOr(0)
            /\ UNCHANGED <<callVars, calls>>
       ELSE IF jobIn.translator
       THEN /\ Submit([kind |-> "markdown", n |-> 0])
            /\ jobPc' = "markdownWait"
       ELSE /\ jobPc' = "finish"
            /\ UNCHANGED <<callVars, calls>>
    /\ UNCHANGED <<jobIn, replies, poolVars, hcVars, metrics, closeVars,
                   langVars, docVars, regVars, rpc>>

\* The markdown's call returned.
MarkdownReturn ==
    /\ jobPc = "markdownWait"
    /\ Returned
    /\ IF res[JobCaller] = "success"
       THEN jobPc' = "finish" /\ job' = job
       ELSE jobPc' = AfterError /\ job' = SetError(job)
    /\ UNCHANGED <<jobIn, chunkIdx, calls, poolVars, hcVars, metrics,
                   closeVars, langVars, docVars, regVars, rpc>>

\* translateChunked, one iteration up to the call: UpdateProgress for chunk
\* i+1 of totalChunks, then Translate of that chunk.
ChunkSubmit ==
    /\ jobPc = "chunks"
    /\ job' = UpdateProgress(job, ChunkProgress(chunkIdx, jobIn.chunks))
    /\ IF jobIn.translator
       THEN /\ Submit([kind |-> "chunk", n |-> chunkIdx + 1])
            /\ jobPc' = "chunkWait"
            /\ UNCHANGED chunkIdx
       ELSE /\ chunkIdx' = NextChunk(chunkIdx)
            /\ jobPc' = ChunksOr(NextChunk(chunkIdx))
            /\ UNCHANGED <<callVars, calls>>
    /\ UNCHANGED <<jobIn, replies, poolVars, hcVars, metrics, closeVars,
                   langVars, docVars, regVars, rpc>>

\* The chunk's call returned: append the translation and go on, or return
\* the error to ProcessJob, which calls SetError.
ChunkReturn ==
    /\ jobPc = "chunkWait"
    /\ Returned
    /\ IF res[JobCaller] = "success"
       THEN /\ chunkIdx' = NextChunk(chunkIdx)
            /\ jobPc' = ChunksOr(NextChunk(chunkIdx))
            /\ job' = job
       ELSE /\ jobPc' = AfterError
            /\ job' = SetError(job)
            /\ UNCHANGED chunkIdx
    /\ UNCHANGED <<jobIn, calls, poolVars, hcVars, metrics, closeVars,
                   langVars, docVars, regVars, rpc>>

\* job.UpdateProgress(100, "Translation completed")
ProcessFinish ==
    /\ jobPc = "finish"
    /\ job' = UpdateProgress(job, 100)
    /\ jobPc' = "result"
    /\ UNCHANGED <<jobIn, chunkIdx, calls, replies, poolVars, hcVars,
                   callVars, metrics, closeVars, langVars, docVars, regVars,
                   rpc>>

\* job.SetResult(translatedTitle, translatedMarkdown, 0, inferenceTime)
ProcessSetResult ==
    /\ jobPc = "result"
    /\ job' = SetResult(job)
    /\ jobPc' = "end"
    /\ UNCHANGED <<jobIn, chunkIdx, calls, replies, poolVars, hcVars,
                   callVars, metrics, closeVars, langVars, docVars, regVars,
                   rpc>>

(* --------------------- LanguageMapper.ToBackendCode -------------------- *)

\* The characters of language strings: an upper-case letter, its lower-case
\* form, and the two separators.
Chars == {"E", "e", "-", "_"}

RECURSIVE StringsUpTo(_)
StringsUpTo(n) ==
    IF n = 0 THEN {<< >>}
    ELSE LET shorter == StringsUpTo(n - 1)
         IN  shorter \cup {Append(s, c) : s \in shorter, c \in Chars}

LangStrings == StringsUpTo(MaxLangLen)

\* unicode.ToLower on one character.
LowerRune(c) == IF c = "E" THEN "e" ELSE c

\* strings.ToLower
ToLower(s) == [i \in 1..Len(s) |-> LowerRune(s[i])]

\* strings.IndexAny(s, chars): 0-based index of the first character of s
\* that is in chars, -1 when there is none.
IndexAny(s, chars) ==
    LET hits == {i \in 1..Len(s) : s[i] \in chars}
    IN  IF hits = {} THEN -1
        ELSE (CHOOSE i \in hits : \A j \in hits : i <= j) - 1

\* s[:idx]
Prefix(s, idx) == SubSeq(s, 1, idx)

ToBackendCodeDashOnly(protoLang) ==
    LET lang == ToLower(protoLang)
        idx == IndexAny(lang, {"-"})
    IN  IF idx >= 0 THEN Prefix(lang, idx) ELSE lang

\* LanguageMapper.ToBackendCode
ToBackendCode(protoLang) ==
    LET lang == ToLower(protoLang)
        idx == IndexAny(lang, {"-", "_"})
    IN  IF idx >= 0 THEN Prefix(lang, idx) ELSE lang

\* A request with its two language strings, as CreateJob and the
\* synchronous handler receive it.
InitLang ==
    /\ PoolInit
    /\ CloseIdle
    /\ JobIdle
    /\ langIn \in LangStrings \X LangStrings
    /\ langOut = [sync |-> NotSent, job |-> NotSent]
    /\ DocIdle
    /\ RegIdle
    /\ SyncIdle

\* TranslationService.Translate: an empty source or target language is
\* rejected; otherwise both are converted and handed to the translator.
HandlerTranslate ==
    /\ langOut.sync.state = "none"
    /\ langOut' =
          [langOut EXCEPT !.sync =
              IF langIn[1] = << >> \/ langIn[2] = << >>
              THEN [NotSent EXCEPT !.state = "rejected"]
              ELSE [state |-> "sent", src |-> ToBackendCode(langIn[1]),
                    tgt |-> ToBackendCode(langIn[2])]]
    /\ UNCHANGED <<langIn, poolVars, hcVars, callVars, metrics, closeVars,
                   jobVars, docVars, regVars, rpc>>

\* ProcessJob: job.SourceLang and job.TargetLang (copied from the request
\* by CreateJob) are converted and handed to the translator.
ProcessJobLang ==
    /\ langOut.job.state = "none"
    /\ langOut' =
          [langOut EXCEPT !.job =
              [state |-> "sent", src |-> ToBackendCode(langIn[1]),
               tgt |-> ToBackendCode(langIn[2])]]
    /\ UNCHANGED <<langIn, poolVars, hcVars, callVars, metrics, closeVars,
                   jobVars, docVars, regVars, rpc>>

(* ------------- splitIntoChunks, splitBySentences (job_processor.go) ---- *)

\* The bytes of a markdown text: a letter, the sentence end, the two
\* white-space characters.
DocChars == {"a", ".", " ", "\n"}

RECURSIVE TextsUpTo(_)
TextsUpTo(n) ==
    IF n = 0 THEN {<< >>}
    ELSE LET shorter == TextsUpTo(n - 1)
         IN  shorter \cup {Append(s, c) : s \in shorter, c \in DocChars}

Texts == TextsUpTo(MaxTextLen)

\* unicode.IsSpace
IsSpace(c) == c \in {" ", "\n"}

\* strings.TrimSpace
TrimSpace(s) ==
    LET keep == {i \in 1..Len(s) : ~IsSpace(s[i])}
    IN  IF keep = {} THEN << >>
        ELSE SubSeq(s, CHOOSE i \in keep : \A j \in keep : i <= j,
                       CHOOSE i \in keep : \A j \in keep : j <= i)

\* strings.Split(text, "\n\n"): cur is the piece being read.
RECURSIVE SplitFrom(_, _)
SplitFrom(rest, cur) ==
    IF rest = << >> THEN <<cur>>
    ELSE IF Len(rest) >= 2 /\ rest[1] = "\n" /\ rest[2] = "\n"
         THEN <<cur>> \o SplitFrom(SubSeq(rest, 3, Len(rest)), << >>)
         ELSE SplitFrom(Tail(rest), Append(cur, Head(rest)))

Paragraphs(text) == SplitFrom(text, << >>)

\* The test of splitBySentences at the byte of position i (1-based): a
\* sentence end followed by white space.
SentenceEnd(text, i) ==
    /\ text[i] = "."
    /\ i < Len(text)
    /\ IsSpace(text[i + 1])

\* The loop of splitBySentences from position i on, and the remaining text
\* after it.
RECURSIVE SentencesFrom(_, _, _)
SentencesFrom(text, i, current) ==
    IF i > Len(text)
    THEN IF TrimSpace(current) # << >> THEN <<TrimSpace(current)>> ELSE << >>
    ELSE LET cur == Append(current, text[i])
         IN  IF SentenceEnd(text, i)
             THEN <<TrimSpace(cur)>> \o SentencesFrom(text, i + 1, << >>)
             ELSE SentencesFrom(text, i + 1, cur)

splitBySentences(text) == SentencesFrom(text, 1, << >>)

\* The state of splitIntoChunks inside its loops: chunks and currentChunk,
\* with, for the record, the number n of paragraphs and sentences that
\* currentChunk was built from and the same number for every chunk.
NoChunks == [chunks |-> << >>, units |-> << >>, cur |-> << >>, n |-> 0]

\* chunks = append(chunks, currentChunk); currentChunk = ""
FlushDropping(st) == [st EXCEPT !.cur = << >>, !.n = 0]

Flush(st) ==
    [chunks |-> Append(st.chunks, st.cur), units |-> Append(st.units, st.n),
     cur |-> << >>, n |-> 0]

FlushIf(cond, st) == IF cond THEN Flush(st) ELSE st

\* currentChunk with unit appended after sep when it is not empty.
Extend(cur, sep, unit) == (IF cur # << >> THEN cur \o sep ELSE cur) \o unit

\* The comparison that flushes currentChunk before a unit is added.
CrossesByTwo(size, maxChunkSize) == size > maxChunkSize + 2

Crosses(size, maxChunkSize) == size > maxChunkSize

\* One iteration of the loop over the sentences of a long paragraph.
AddSentence(st, sentence, maxChunkSize) ==
    LET a == FlushIf(Crosses(Len(st.cur) + Len(sentence) + 1, maxChunkSize)
                       /\ st.cur # << >>, st)
    IN  [a EXCEPT !.cur = Extend(a.cur, <<" ">>, sentence), !.n = @ + 1]

RECURSIVE AddSentences(_, _, _)
AddSentences(st, sentences, maxChunkSize) ==
    IF sentences = << >> THEN st
    ELSE AddSentences(AddSentence(st, Head(sentences), maxChunkSize),
                      Tail(sentences), maxChunkSize)

\* One iteration of the loop over the paragraphs.
AddParagraph(st, para, maxChunkSize) ==
    LET a == FlushIf(Crosses(Len(st.cur) + Len(para) + 2, maxChunkSize)
                       /\ st.cur # << >>, st)
    IN  IF Len(para) > maxChunkSize
        THEN AddSentences(FlushIf(a.cur # << >>, a), splitBySentences(para),
                          maxChunkSize)
        ELSE [a EXCEPT !.cur = Extend(a.cur, <<"\n", "\n">>, para),
                       !.n = IF a.cur # << >> \/ para # << >>
                             THEN @ + 1 ELSE @]

RECURSIVE AddParagraphs(_, _, _)
AddParagraphs(st, paragraphs, maxChunkSize) ==
    IF paragraphs = << >> THEN st
    ELSE AddParagraphs(AddParagraph(st, Head(paragraphs), maxChunkSize),
                       Tail(paragraphs), maxChunkSize)

\* splitIntoChunks with the unit counts of its chunks.
SplitTrace(text, maxChunkSize) ==
    IF Len(text) <= maxChunkSize
    THEN [NoChunks EXCEPT !.chunks = <<text>>, !.units = <<1>>]
    ELSE FlushIf(AddParagraphs(NoChunks, Paragraphs(text), maxChunkSize).cur
                    # << >>,
                 AddParagraphs(NoChunks, Paragraphs(text), maxChunkSize))

splitIntoChunks(text, maxChunkSize) == SplitTrace(text, maxChunkSize).chunks

\* A caller of splitIntoChunks with any text and any maximal chunk size.
InitSplit ==
    /\ PoolStarted(WorkerIds)
    /\ CloseIdle
    /\ JobIdle
    /\ LangIdle
    /\ RegIdle
    /\ SyncIdle
    /\ \E text \in Texts, size \in 1..MaxChunkSize :
          doc = [NoDoc EXCEPT !.pc = "split", !.text = text,
                              !.chunkSize = size]

\* chunks := p.splitIntoChunks(text, maxChunkSize)
SplitCall ==
    /\ doc.pc = "split"
    /\ doc' = [doc EXCEPT !.pc = "end", !.split = TRUE,
                          !.chunks = splitIntoChunks(doc.text, doc.chunkSize),
                          !.units = SplitTrace(doc.text, doc.chunkSize).units]
    /\ UNCHANGED <<poolVars, hcVars, callVars, metrics, closeVars, jobVars,
                   langVars, regVars, rpc>>

(* ------------- ProcessJob on the markdown of a document ---------------- *)

\* The reply of the translator to a text: the letters translated, the
\* punctuation and the white space kept.
Translated(text) ==
    [k \in 1..Len(text) |-> IF text[k] = "a" THEN "A" ELSE text[k]]

\* strings.Join(parts, sep)
RECURSIVE Join(_, _)
Join(parts, sep) ==
    IF parts = << >> THEN << >>
    ELSE IF Len(parts) = 1 THEN parts[1]
    ELSE parts[1] \o sep \o Join(Tail(parts), sep)

\* len(markdown) > p.chunkSize
NeedsChunkingAtBudget(markdown, chunkSize) == Len(markdown) >= chunkSize

NeedsChunking(markdown, chunkSize) == Len(markdown) > chunkSize

\* The chunk number in "chunk %d translation failed", for loop index i.
ChunkIndex(i) == i

ChunkNumber(i) == i + 1

\* ProcessJob of a document without title has called UpdateStatus and
\* reached its markdown; the processor has a translator and a chunk size.
InitDoc ==
    /\ PoolStarted(WorkerIds)
    /\ CloseIdle
    /\ LangIdle
    /\ RegIdle
    /\ SyncIdle
    /\ jobIn = NoRequest
    /\ jobPc = "none"
    /\ chunkIdx = 0
    /\ calls = << >>
    /\ replies = 0
    /\ job = UpdateStatus([NoJob EXCEPT !.status = "queued"], "processing")
    /\ \E text \in Texts, size \in 1..MaxChunkSize :
          doc = [NoDoc EXCEPT !.pc = "markdown", !.text = text,
                              !.chunkSize = size]

DocUnchanged ==
    UNCHANGED <<jobIn, jobPc, chunkIdx, calls, replies, poolVars, hcVars,
                callVars, metrics, closeVars, langVars, regVars, rpc>>

\* markdown == "": nothing to translate.
DocEmpty ==
    /\ doc.pc = "markdown"
    /\ doc.text = << >>
    /\ doc' = [doc EXCEPT !.pc = "finish"]
    /\ UNCHANGED job
    /\ DocUnchanged

\* The markdown fits the chunk size: UpdateProgress(10) and one Translate
\* call, which returns a reply or an error (SetError, return).
DocSingle ==
    /\ doc.pc = "markdown"
    /\ doc.text # << >>
    /\ ~NeedsChunking(doc.text, doc.chunkSize)
    /\ \/ /\ job' = UpdateProgress(job, 10)
          /\ doc' = [doc EXCEPT !.pc = "finish", !.log = Append(@, 10),
                                !.sent = <<doc.text>>,
                                !.md = Translated(doc.text)]
       \/ /\ job' = SetError(UpdateProgress(job, 10))
          /\ doc' = [doc EXCEPT !.pc = "end", !.log = Append(@, 10),
                                !.sent = <<doc.text>>]
    /\ DocUnchanged

\* The markdown is longer than the chunk size: UpdateProgress(10), and
\* translateChunked splits it.
DocSplit ==
    /\ doc.pc = "markdown"
    /\ doc.text # << >>
    /\ NeedsChunking(doc.text, doc.chunkSize)
    /\ job' = UpdateProgress(job, 10)
    /\ doc' = [doc EXCEPT !.pc = "chunks", !.log = Append(@, 10),
                          !.split = TRUE,
                          !.chunks = splitIntoChunks(doc.text, doc.chunkSize),
                          !.units = SplitTrace(doc.text, doc.chunkSize).units,
                          !.i = 0]
    /\ DocUnchanged

\* One iteration of the loop of translateChunked: UpdateProgress, then the
\* Translate call of the chunk; a reply is appended to translatedChunks, an
\* error ends translateChunked and ProcessJob (SetError, return).
DocChunk ==
    /\ doc.pc = "chunks"
    /\ doc.i < Len(doc.chunks)
    /\ LET progress == ChunkProgress(doc.i, Len(doc.chunks))
           chunk == doc.chunks[doc.i + 1]
       IN  \/ /\ job' = UpdateProgress(job, progress)
              /\ doc' = [doc EXCEPT !.log = Append(@, progress),
                                    !.sent = Append(@, chunk),
                                    !.out = Append(@, Translated(chunk)),
                                    !.i = NextChunk(@)]
           \/ /\ job' = SetError(UpdateProgress(job, progress))
              /\ doc' = [doc EXCEPT !.pc = "end",
                                    !.log = Append(@, progress),
                                    !.sent = Append(@, chunk),
                                    !.errChunk = ChunkNumber(doc.i)]
    /\ DocUnchanged

\* The loop is over: translateChunked returns the joined replies.
DocJoin ==
    /\ doc.pc = "chunks"
    /\ doc.i >= Len(doc.chunks)
    /\ doc' = [doc EXCEPT !.pc = "finish", !.md = Join(doc.out, << >>)]
    /\ UNCHANGED job
    /\ DocUnchanged

\* UpdateProgress(100) and SetResult(translatedTitle, translatedMarkdown).
DocFinish ==
    /\ doc.pc = "finish"
    /\ job' = SetResult(UpdateProgress(job, 100))
    /\ doc' = [doc EXCEPT !.pc = "end", !.log = Append(@, 100),
                          !.result = doc.md]
    /\ DocUnchanged

(* ------------- JobQueue: the registry, its writers and readers --------- *)

Terminal(status) == status \in {"completed", "failed"}

\* now.Sub(*job.CompletedAt) > maxAge
ExpiredAtMaxAge(now, completedAt, maxAge) == now - completedAt >= maxAge

Expired(now, completedAt, maxAge) == now - completedAt > maxAge

\* The test of CleanupOldJobs on one job, on the fields as it reads them.
Removable(j, now, maxAge) ==
    /\ Terminal(j.status)
    /\ j.completedAt # -1
    /\ Expired(now, j.completedAt, maxAge)

RegUnchanged ==
    UNCHANGED <<poolVars, hcVars, callVars, metrics, closeVars, jobVars,
                langVars, docVars, rpc>>

\* time.Now() advances.
Tick ==
    /\ clock < MaxTime
    /\ clock' = clock + 1
    /\ UNCHANGED <<jobs, jobsMu, jobMu, gc, procPc, rd>>
    /\ RegUnchanged

\* CreateJob: a queued job is put in q.jobs under jobsMu and its ProcessJob
\* goroutine is started.  Identifiers are fresh; the model hands them out in
\* increasing order.
RegCreateJob(id) ==
    /\ jobsMu = "free"
    /\ procPc[id] = "none"
    /\ \A other \in JobIds : other < id => procPc[other] # "none"
    /\ jobs' = [jobs EXCEPT ![id] = [Absent EXCEPT !.inMap = TRUE,
                                                  !.status = "queued"]]
    /\ procPc' = [procPc EXCEPT ![id] = "start"]
    /\ UNCHANGED <<jobsMu, jobMu, clock, gc, rd>>
    /\ RegUnchanged

\* ProcessJob: UpdateStatus(JobStatusProcessing, ...) under job.mu.
ProcStart(id) ==
    /\ procPc[id] = "start"
    /\ jobMu[id] = "free"
    /\ jobs' = [jobs EXCEPT ![id].status = "processing"]
    /\ procPc' = [procPc EXCEPT ![id] = "processing"]
    /\ UNCHANGED <<jobsMu, jobMu, clock, gc, rd>>
    /\ RegUnchanged

\* ProcessJob ends with SetError or SetResult: job.mu is locked and the
\* first fields are written (Error, or the result fields).
TermBegin(id) ==
    /\ procPc[id] = "processing"
    /\ jobMu[id] = "free"
    /\ jobMu' = [jobMu EXCEPT ![id] = "proc"]
    /\ \/ /\ jobs' = [jobs EXCEPT ![id].error = TRUE]
          /\ procPc' = [procPc EXCEPT ![id] = "setError"]
       \/ /\ jobs' = jobs
          /\ procPc' = [procPc EXCEPT ![id] = "setResult"]
    /\ UNCHANGED <<jobsMu, clock, gc, rd>>
    /\ RegUnchanged

\* j.Status = JobStatusFailed, or JobStatusCompleted
TermStatus(id) ==
    /\ procPc[id] \in {"setError", "setResult"}
    /\ jobs' = [jobs EXCEPT ![id].status =
                  IF procPc[id] = "setError" THEN "failed" ELSE "completed"]
    /\ procPc' = [procPc EXCEPT ![id] = "setTime"]
    /\ UNCHANGED <<jobsMu, jobMu, clock, gc, rd>>
    /\ RegUnchanged

\* now := time.Now(); j.CompletedAt = &now; job.mu is unlocked.
TermTime(id) ==
    /\ procPc[id] = "setTime"
    /\ jobs' = [jobs EXCEPT ![id].completedAt = clock]
    /\ jobMu' = [jobMu EXCEPT ![id] = "free"]
    /\ procPc' = [procPc EXCEPT ![id] = "done"]
    /\ UNCHANGED <<jobsMu, clock, gc, rd>>
    /\ RegUnchanged

\* CleanupOldJobs(maxAge): jobsMu is locked, now is read, the loop over
\* q.jobs begins.
GCStart(maxAge) ==
    /\ gc.pc = "idle"
    /\ jobsMu = "free"
    /\ jobsMu' = "gc"
    /\ gc' = [pc |-> "run", now |-> clock, maxAge |-> maxAge,
              todo |-> {id \in JobIds : jobs[id].inMap}]
    /\ UNCHANGED <<jobs, jobMu, clock, procPc, rd>>
    /\ RegUnchanged

\* One iteration of the loop: job.Status and job.CompletedAt are read
\* without job.mu, whoever holds it, and the job is deleted when it is
\* terminal and old.
GCVisit(id) ==
    /\ gc.pc = "run"
    /\ id \in gc.todo
    /\ gc' = [gc EXCEPT !.todo = @ \ {id}]
    /\ jobs' = IF Removable(jobs[id], gc.now, gc.maxAge)
               THEN [jobs EXCEPT ![id].inMap = FALSE]
               ELSE jobs
    /\ UNCHANGED <<jobsMu, jobMu, clock, procPc, rd>>
    /\ RegUnchanged

\* The loop is over: jobsMu is unlocked.
GCDone ==
    /\ gc.pc = "run"
    /\ gc.todo = {}
    /\ gc' = [gc EXCEPT !.pc = "idle"]
    /\ jobsMu' = "free"
    /\ UNCHANGED <<jobs, jobMu, clock, procPc, rd>>
    /\ RegUnchanged

\* handleJobRequest: GetJob(jobID) under jobsMu finds the job.
ReadGetJob(r, id) ==
    /\ rd[r].pc = "idle"
    /\ jobsMu = "free"
    /\ jobs[id].inMap
    /\ rd' = [rd EXCEPT ![r] = [NoCopy EXCEPT !.pc = "status", !.id = id]]
    /\ UNCHANGED <<jobs, jobsMu, jobMu, clock, gc, procPc>>
    /\ RegUnchanged

\* handleJobStatusJSON: job.GetStatus() under job.mu.
ReadStatus(r) ==
    /\ rd[r].pc = "status"
    /\ jobMu[rd[r].id] = "free"
    /\ rd' = [rd EXCEPT ![r].pc = "fields",
                        ![r].status = jobs[rd[r].id].status]
    /\ UNCHANGED <<jobs, jobsMu, jobMu, clock, gc, procPc>>
    /\ RegUnchanged

\* handleJobStatusJSON: job.StartedAt, job.CompletedAt, job.Error and, for
\* a completed status, the result fields are read without job.mu, whoever
\* holds it; the response is written.
ReadFields(r) ==
    /\ rd[r].pc = "fields"
    /\ rd' = [rd EXCEPT ![r].pc = "done"]
    /\ UNCHANGED <<jobs, jobsMu, jobMu, clock, gc, procPc>>
    /\ RegUnchanged

\* The pool started and nothing else running: an empty queue, no request.
InitReg ==
    /\ PoolStarted(WorkerIds)
    /\ CloseIdle
    /\ JobIdle
    /\ LangIdle
    /\ DocIdle
    /\ RegIdle
    /\ SyncIdle

(* -------- TranslationService.Translate (translation_service.go) -------- *)

\* The requests the handler may be given: correlation id, languages,
\* primitive, title, document (req.GetDoc(), nil when not present), and
\* whether s.Translator is set.
SyncRequests ==
    [jobId : {"", "j1", "j2"},
     source : {<< >>, <<"E", "_", "e">>},
     target : {<< >>, <<"E", "_", "e">>},
     primitive : {"TITLE", "DOC", "OTHER"},
     title : {"", "t"},
     doc : {[present |-> FALSE, title |-> "", markdown |-> ""]} \cup
           [present : {TRUE}, title : {"", "t"}, markdown : {"", "m"}],
     translator : BOOLEAN]

\* What a translator call returns: a text with a nil error, or an error
\* (whose text may be empty).
Outcomes ==
    {[ok |-> TRUE, text |-> "T"], [ok |-> FALSE, text |-> ""],
     [ok |-> FALSE, text |-> "boom"]}

\* The validation of the request: the message of the first check that
\* fails, "" when all pass.
ValidateIdAndTarget(req) ==
    IF req.jobId = "" THEN "job_id is required"
    ELSE IF req.target = << >> THEN "target_language is required"
    ELSE ""

Validate(req) ==
    IF req.jobId = "" THEN "job_id is required"
    ELSE IF req.target = << >> THEN "target_language is required"
    ELSE IF req.source = << >> THEN "source_language is required"
    ELSE ""

\* return nil, status.Error(codes.InvalidArgument, msg)
InvalidArgument(msg) ==
    [NoResponse EXCEPT !.kind = "error", !.code = "InvalidArgument",
                       !.errorMessage = msg]

\* fmt.Sprintf("<prefix>: %v", err)
FailureMessageErrOnly(prefix, err) == err

FailureMessage(prefix, err) == prefix \o ": " \o err

\* return &TranslateResponse{JobId: req.JobId, Success: false,
\*                           ErrorMessage: msg, ...}, nil
FailureResponse(req, msg) ==
    [NoResponse EXCEPT !.kind = "response", !.jobId = req.jobId,
                       !.errorMessage = msg]

\* The handler returns resp.
SyncReturn(resp) == [rpc EXCEPT !.pc = "done", !.resp = resp]

\* A Translate request arrives.
SyncReceive ==
    /\ rpc.pc = "idle"
    /\ \E req \in SyncRequests : rpc' = [rpc EXCEPT !.pc = "validate",
                                                    !.req = req]
    /\ UNCHANGED <<poolVars, hcVars, callVars, metrics, closeVars, jobVars,
                   langVars, docVars, regVars>>

\* The three checks, then the conversion of the two language codes.
SyncValidate ==
    /\ rpc.pc = "validate"
    /\ rpc' = IF Validate(rpc.req) # ""
              THEN SyncReturn(InvalidArgument(Validate(rpc.req)))
              ELSE [rpc EXCEPT !.pc = "dispatch",
                               !.src = ToBackendCode(rpc.req.source),
                               !.tgt = ToBackendCode(rpc.req.target)]
    /\ UNCHANGED <<poolVars, hcVars, callVars, metrics, closeVars, jobVars,
                   langVars, docVars, regVars>>

\* Where the document case continues after its title.
SyncMarkdownOr(req) == IF req.doc.markdown # "" THEN "markdown" ELSE "respond"

\* switch req.Primitive, up to the first translator call.
SyncDispatch ==
    /\ rpc.pc = "dispatch"
    /\ LET req == rpc.req
       IN  rpc' =
             CASE req.primitive = "TITLE" /\ req.title = "" ->
                    SyncReturn(InvalidArgument(
                        "title is required for PRIMITIVE_TITLE"))
               [] req.primitive = "DOC" /\ ~req.doc.present ->
                    SyncReturn(InvalidArgument(
                        "doc is required for PRIMITIVE_DOC_TRANSLATE"))
               [] req.primitive = "OTHER" ->
                    SyncReturn(InvalidArgument("unsupported primitive type"))
               [] OTHER ->
                    IF ~req.translator
                    THEN SyncReturn(FailureResponse(
                             req, "Translator not configured"))
                    ELSE IF req.primitive = "TITLE" \/ req.doc.title # ""
                    THEN [rpc EXCEPT !.pc = "title"]
                    ELSE [rpc EXCEPT !.pc = SyncMarkdownOr(req)]
    /\ UNCHANGED <<poolVars, hcVars, callVars, metrics, closeVars, jobVars,
                   langVars, docVars, regVars>>

\* s.Translator.Translate(ctx, text, sourceLang, targetLang) as the handler
\* sees it: the call is logged with what it returned.
SyncCall(text, o) ==
    Append(rpc.calls, [text |-> text, src |-> rpc.src, tgt |-> rpc.tgt,
                       ok |-> o.ok])

\* The title's translator call and the check of its error.
SyncTitle ==
    /\ rpc.pc = "title"
    /\ \E o \in Outcomes :
         LET req == rpc.req
             isTitle == req.primitive = "TITLE"
             text == IF isTitle THEN req.title ELSE req.doc.title
             made == SyncCall(text, o)
         IN  rpc' =
               IF o.ok
               THEN [rpc EXCEPT !.calls = made, !.title = o.text,
                                !.pc = IF isTitle THEN "respond"
                                       ELSE SyncMarkdownOr(req)]
               ELSE [SyncReturn(FailureResponse(req,
                        FailureMessage(IF isTitle THEN "Translation failed"
                                       ELSE "Title translation failed",
                                       o.text)))
                     EXCEPT !.calls = made]
    /\ UNCHANGED <<poolVars, hcVars, callVars, metrics, closeVars, jobVars,
                   langVars, docVars, regVars>>

\* The markdown's translator call and the check of its error.
SyncMarkdown ==
    /\ rpc.pc = "markdown"
    /\ \E o \in Outcomes :
         LET made == SyncCall(rpc.req.doc.markdown, o)
         IN  rpc' =
               IF o.ok
               THEN [rpc EXCEPT !.calls = made, !.markdown = o.text,
                                !.pc = "respond"]
               ELSE [SyncReturn(FailureResponse(rpc.req,
                        FailureMessage("Markdown translation failed",
                                       o.text)))
                     EXCEPT !.calls = made]
    /\ UNCHANGED <<poolVars, hcVars, callVars, metrics, closeVars, jobVars,
                   langVars, docVars, regVars>>

\* Build response: success = true with the translated texts.
SyncRespond ==
    /\ rpc.pc = "respond"
    /\ rpc' = SyncReturn([NoResponse EXCEPT !.kind = "response",
                                            !.jobId = rpc.req.jobId,
                                            !.success = TRUE,
                                            !.title = rpc.title,
                                            !.markdown = rpc.markdown])
    /\ UNCHANGED <<poolVars, hcVars, callVars, metrics, closeVars, jobVars,
                   langVars, docVars, regVars>>

(* ------------------------------- Next ---------------------------------- *)

Next ==
    \/ \E r \in 1..MaxRecs : Crash(r)
    \/ \E r \in 1..MaxRecs : MonitorMarkDead(r)
    \/ \E r \in 1..MaxRecs : MonitorRestart(r)
    \/ \E r \in 1..MaxRecs : MonitorRestartFail(r)
    \/ \E r \in 1..MaxRecs : MonitorSend(r)
    \/ HCTick
    \/ HCSkip
    \/ HCRemove
    \/ HCRestart
    \/ HCRestartFail
    \/ HCSend
    \/ HCDone
    \/ \E c \in Callers : TranslateCall(c)
    \/ \E c \in Callers : Cancel(c)
    \/ \E c \in Callers : TranslateAcquire(c)
    \/ \E c \in Callers : TranslateCtxDone(c)
    \/ \E c \in Callers : TranslateTimeout(c)
    \/ \E c \in Callers : TranslateConnect(c)
    \/ \E c \in Callers : TranslateConnectFail(c)
    \/ \E c \in Callers : TranslateExchange(c)
    \/ \E c \in Callers : TranslateClearBusy(c)
    \/ \E c \in Callers : TranslateRelease(c)

Spec == Init /\ [][Next]_vars

\* The timer of the acquisition select fires once its 10 seconds have
\* passed: a call cannot sit in the select for ever with the timer ready.
FairSpec == Spec /\ \A c \in Callers : WF_vars(TranslateTimeout(c))

\* One job processed on the pool: the pool's goroutines, the Translate
\* calls made by ProcessJob, and ProcessJob itself.
NextJob ==
    \/ \E r \in 1..MaxRecs : Crash(r)
    \/ \E r \in 1..MaxRecs : MonitorMarkDead(r)
    \/ \E r \in 1..MaxRecs : MonitorRestart(r)
    \/ \E r \in 1..MaxRecs : MonitorRestartFail(r)
    \/ \E r \in 1..MaxRecs : MonitorSend(r)
    \/ HCTick
    \/ HCSkip
    \/ HCRemove
    \/ HCRestart
    \/ HCRestartFail
    \/ HCSend
    \/ HCDone
    \/ \E c \in Callers : Cancel(c)
    \/ \E c \in Callers : TranslateAcquire(c)
    \/ \E c \in Callers : TranslateCtxDone(c)
    \/ \E c \in Callers : TranslateTimeout(c)
    \/ \E c \in Callers : TranslateConnect(c)
    \/ \E c \in Callers : TranslateConnectFail(c)
    \/ \E c \in Callers : TranslateExchange(c)
    \/ \E c \in Callers : TranslateClearBusy(c)
    \/ \E c \in Callers : TranslateRelease(c)
    \/ CreateJob
    \/ ProcessStart
    \/ ProcessTitle
    \/ TitleReturn
    \/ ProcessDocNil
    \/ ProcessMarkdown
    \/ MarkdownReturn
    \/ ChunkSubmit
    \/ ChunkReturn
    \/ ProcessFinish
    \/ ProcessSetResult

SpecJob == Init /\ [][NextJob]_vars

\* The same with a Close call at any moment.
NextClose ==
    \/ NextJob
    \/ CloseSignal
    \/ CloseKill
    \/ \E l \in {"manageWorkers", "updateMetricsLoop"} : LoopExit(l)
    \/ CloseReturn

SpecClose == Init /\ [][NextClose]_vars

\* The language conversion on the two paths, for every pair of inputs.
NextLang ==
    \/ HandlerTranslate
    \/ ProcessJobLang

SpecLang == InitLang /\ [][NextLang]_vars

\* ProcessJob on the markdown of every text up to MaxTextLen bytes.
NextDoc ==
    \/ DocEmpty
    \/ DocSingle
    \/ DocSplit
    \/ DocChunk
    \/ DocJoin
    \/ DocFinish

SpecDoc == InitDoc /\ [][NextDoc]_vars

\* splitIntoChunks on every text up to MaxTextLen bytes.
NextSplit == SplitCall

SpecSplit == InitSplit /\ [][NextSplit]_vars

\* The job registry with the goroutines that write its jobs and
\* CleanupOldJobs.
NextGC ==
    \/ Tick
    \/ \E id \in JobIds : RegCreateJob(id)
    \/ \E id \in JobIds : ProcStart(id)
    \/ \E id \in JobIds : TermBegin(id)
    \/ \E id \in JobIds : TermStatus(id)
    \/ \E id \in JobIds : TermTime(id)
    \/ \E maxAge \in 0..MaxAge : GCStart(maxAge)
    \/ \E id \in JobIds : GCVisit(id)
    \/ GCDone

SpecGC == InitReg /\ [][NextGC]_vars

\* The same with status requests.
NextReg ==
    \/ NextGC
    \/ \E r \in Readers, id \in JobIds : ReadGetJob(r, id)
    \/ \E r \in Readers : ReadStatus(r)
    \/ \E r \in Readers : ReadFields(r)

SpecReg == InitReg /\ [][NextReg]_vars

\* The synchronous handler on every request, from the state with the pool
\* started and nothing else running.
NextSync ==
    \/ SyncReceive
    \/ SyncValidate
    \/ SyncDispatch
    \/ SyncTitle
    \/ SyncMarkdown
    \/ SyncRespond

SpecSync == InitReg /\ [][NextSync]_vars

(* ------------------------------ claims --------------------------------- *)

Range(f) == {f[i] : i \in DOMAIN f}

Holders == {c \in Callers : held[c] # 0}

\* Workers of the pool's list whose busy flag is set.
BusyCount == Cardinality({i \in 1..Len(workers) : recs[workers[i]].busy})

\* C1: busy workers of the list plus tokens in the ready channel never
\* exceed the length of the pool's worker list.
C1_BusyPlusReadyAtMostTotal ==
    BusyCount + Len(workerReady) <= Len(workers)

\* C2: no two Translate calls hold the same Worker record at once, and a
\* record held by a call is not at the same time a token in the channel.
C2_NoSharedWorker ==
    /\ \A c, d \in Callers : (c # d /\ held[c] # 0) => held[c] # held[d]
    /\ \A c \in Callers : held[c] # 0 => held[c] \notin Range(workerReady)

\* Two calls hold (distinct) Worker records at the same time.
C2_TwoCallsHolding ==
    \E c, d \in Callers : c # d /\ held[c] # 0 /\ held[d] # 0

\* C3: at most one request is in flight to one worker endpoint (the socket
\* path of one worker id) at any moment.
C3_OneRequestPerEndpoint ==
    \A c, d \in Callers :
        (c # d /\ pc[c] = "inflight" /\ pc[d] = "inflight")
            => recs[held[c]].id # recs[held[d]].id

\* C4: the number of Translate calls holding a Worker never exceeds
\* maxWorkers.
C4_HoldersAtMostMaxWorkers ==
    Cardinality(Holders) <= maxWorkers

\* No call is inside an acquisition or release step, no startWorker runs,
\* the health check is idle and every subprocess exit has been handled.
SteadyState ==
    /\ workerMu = "free"
    /\ hcPc = "idle"
    /\ \A c \in Callers : pc[c] \notin {"release", "send"}
    /\ \A r \in 1..Len(recs) :
          \/ recs[r].mon = "wait" /\ recs[r].proc = "running"
          \/ recs[r].mon = "done"

\* C5: at steady state the tokens in the ready channel are exactly the
\* non-busy Workers with a live subprocess; no token refers to a Worker whose
\* subprocess has terminated.
C5_ReadyTokensAreIdleLiveWorkers ==
    SteadyState =>
        /\ Len(workerReady) =
              Cardinality({i \in 1..Len(workers) :
                              /\ ~recs[workers[i]].busy
                              /\ recs[workers[i]].proc = "running"})
        /\ \A i \in 1..Len(workerReady) :
              recs[workerReady[i]].proc = "running"

\* C6: a call that acquired a Worker gives it up only by returning, with the
\* Worker's busy flag already cleared and the Worker enqueued in the ready
\* channel by that step; busy is clear whenever the token is about to be or
\* has just been enqueued, and a returned call holds no Worker.
C6_ReleasedAfterBusyCleared ==
    /\ [][\A c \in Callers :
            (held[c] # 0 /\ held'[c] = 0) =>
                /\ pc'[c] = "done"
                /\ ~recs[held[c]].busy
                /\ ~recs'[held[c]].busy
                /\ workerReady' = Append(workerReady, held[c])]_vars
    /\ [](\A c \in Callers :
            /\ pc[c] = "send" => ~recs[held[c]].busy
            /\ pc[c] = "done" => held[c] = 0)

\* A call that acquired a Worker has returned a transport failure and its
\* Worker is back in the ready channel.
C6_FailedCallReleased ==
    \E c \in Callers :
        /\ pc[c] = "done" /\ res[c] = "transport"
        /\ workerReady # << >>

\* C7: a call whose context was already expired when it was made never
\* holds a Worker (and so never sets a busy flag).
C7_ExpiredNeverAcquires ==
    \A c \in Callers : ctx[c] = "expired" => held[c] = 0

\* A replacement for record r has been started: a later record with the
\* same id whose startWorker has completed.
Restarted(r) ==
    \E q \in 1..Len(recs) :
        q > r /\ recs[q].id = recs[r].id /\ recs[q].mon # "none"

\* C8: a Worker whose subprocess was killed while a call held it, before
\* that call connected, is not handed to a caller again until its restart
\* has succeeded.
C8_KilledWorkerNotHandedOut ==
    [][\A c \in Callers :
          (pc[c] = "acquire" /\ pc'[c] = "marked") =>
              (recs[held'[c]].killedHeld => Restarted(held'[c]))]_vars

\* Calls whose acquisition failed (context done, or acquisition timeout).
AcquisitionFailed ==
    {c \in Callers : pc[c] = "done" /\ res[c] \in {"cancelled", "timeout"}}

\* Calls that received a Worker from the ready channel.
Acquired ==
    {c \in Callers :
        \/ pc[c] \in {"marked", "inflight", "release", "send"}
        \/ pc[c] = "done" /\ res[c] \notin {"cancelled", "timeout"}}

\* C9: every call whose acquisition failed has recorded one failed request
\* and one queue_wait observation (as every call that acquired has).
C9_AcquisitionFailureRecordsQueueWait ==
    /\ metrics.queueWait =
          Cardinality(Acquired) + Cardinality(AcquisitionFailed)
    /\ metrics.reqError >= Cardinality(AcquisitionFailed)

\* C10: a call never stays in acquisition for ever, and a call that leaves
\* it by the acquisition timeout was waiting there, takes no token from the
\* ready channel and holds no Worker.
C10_AcquisitionBounded ==
    /\ \A c \in Callers : (pc[c] = "acquire") ~> (pc[c] # "acquire")
    /\ [][\A c \in Callers :
            (res[c] # "timeout" /\ res'[c] = "timeout") =>
                /\ pc[c] = "acquire"
                /\ held'[c] = 0
                /\ workerReady' = workerReady]_vars

\* A call whose context has no deadline has failed with the acquisition
\* timeout while the ready channel was empty.
C10_TimedOutWithoutDeadline ==
    \E c \in Callers :
        /\ pc[c] = "done" /\ res[c] = "timeout" /\ ctx[c] = "live"
        /\ workerReady = << >>

\* C11: a call whose context is cancelled while its request/response
\* exchange is in flight is aborted: it leaves the exchange with a
\* Cancelled-class error instead of the worker's reply or an I/O error.
C11_CancelAbortsExchange ==
    [][\A c \in Callers :
          (pc[c] = "inflight" /\ ctx[c] = "cancelled" /\ pc'[c] # "inflight")
              => res'[c] = "cancelled"]_vars

\* No step after Close has returned starts a worker subprocess.
NoSpawnAfterClose ==
    [][closePc = "returned" => Len(recs') = Len(recs)]_vars

\* C12: once Close has returned, every worker subprocess has been killed,
\* every watcher (monitor goroutine) and supervisor loop has exited, and no
\* worker subprocess is spawned afterwards.
C12_ShutdownIsFinal ==
    /\ [](closePc = "returned" =>
            /\ \A r \in 1..Len(recs) :
                  recs[r].proc = "exited" /\ recs[r].mon = "done"
            /\ loops = {}
            /\ hcPc = "idle")
    /\ NoSpawnAfterClose

\* Some record with identifier id has a running subprocess.
Alive(id) ==
    \E r \in 1..Len(recs) : recs[r].id = id /\ recs[r].proc = "running"

\* Some goroutine is still going to call startWorker(id), or is inside it:
\* a monitor that has not finished, the health check about to restart id, or
\* a dead record with that id that a health check will find in p.workers or
\* in its copy.
RestartPending(id) ==
    \/ \E r \in 1..Len(recs) :
          recs[r].id = id /\ recs[r].mon \in {"none", "wait", "sleep", "send"}
    \/ \E i \in 1..Len(workers) :
          recs[workers[i]].id = id /\ recs[workers[i]].ps
    \/ \E i \in 1..Len(hcCopy) :
          recs[hcCopy[i]].id = id /\ (recs[hcCopy[i]].ps \/ hcPc = "restart")

\* C13: after a worker subprocess has terminated, restart attempts for its
\* id go on without a maximum: while no subprocess with that id is alive,
\* another restart attempt is always still to come.
C13_FailedRestartRetried ==
    \A id \in WorkerIds :
        ((\E r \in 1..Len(recs) : recs[r].id = id) /\ ~Alive(id))
            => RestartPending(id)

\* C14: no two Worker records of the pool whose subprocesses are alive have
\* the same endpoint path (worker-<id>.sock, fixed by the id).
C14_LiveEndpointsUnique ==
    \A i, j \in 1..Len(workers) :
        (i # j /\ recs[workers[i]].proc = "running"
               /\ recs[workers[j]].proc = "running")
            => recs[workers[i]].id # recs[workers[j]].id

\* The status changes a job may make.
ForwardSteps ==
    {<<"none", "queued">>, <<"queued", "processing">>,
     <<"processing", "completed">>, <<"processing", "failed">>}

\* C15: the status of a job only moves Queued -> Processing -> Completed
\* or Queued -> Processing -> Failed: never backwards, never past
\* Processing in one step, and never away from Completed or Failed.
C15_StatusMonotonic ==
    [][job'.status # job.status =>
          <<job.status, job'.status>> \in ForwardSteps]_vars

\* A job has failed after one of its translator calls succeeded and a later
\* one returned an error.
C15_FailedAfterProgress ==
    /\ job.status = "failed"
    /\ replies >= 2

\* C16: in every state of the job, Completed implies percent = 100, and
\* completedAt is set exactly when the status is Completed or Failed.
C16_CompletedFieldsConsistent ==
    /\ job.status = "completed" => job.percent = 100
    /\ job.completedAt <=> job.status \in {"completed", "failed"}

\* A job has failed with its error set, its completion time set and a
\* percent below 100.
C16_FailedJobStamped ==
    /\ job.status = "failed"
    /\ job.completedAt
    /\ job.error
    /\ job.percent < 100

\* C17: in every state of the job, percent = 100 exactly when the status
\* is Completed.
C17_HundredIffCompleted ==
    job.percent = 100 <=> job.status = "completed"

\* C18: a job handed to the processor never ends up where it cannot reach
\* a terminal status: the only goroutine that could end it is never blocked
\* for ever inside a translator call.  (Here the job's call is in its
\* deferred release, the ready channel is full, and no other call exists
\* that could take a token out of it.)
C18_JobNeverStuck ==
    ~(/\ job.status \in {"queued", "processing"}
      /\ pc[JobCaller] = "send"
      /\ ChanFull
      /\ \A c \in Callers : c # JobCaller => pc[c] \in {"idle", "done"})

\* The chunk numbers among the translator calls submitted so far.
ChunkCalls == SelectSeq(calls, LAMBDA x : x.kind = "chunk")

\* C20: the chunks of a job are submitted one at a time in chunk order: a
\* call is submitted only when every earlier call of the job has returned,
\* the k-th chunk call carries chunk k, and at most one call of the job is
\* in flight.
C20_ChunksSequential ==
    /\ [][calls' # calls =>
            /\ replies = Len(calls)
            /\ pc[JobCaller] = "idle"
            /\ Len(calls') = Len(calls) + 1]_vars
    /\ [](/\ \A k \in 1..Len(ChunkCalls) : ChunkCalls[k].n = k
          /\ Len(calls) - replies \in {0, 1}
          /\ Len(calls) - replies = 1 <=> pc[JobCaller] # "idle")

\* Both chunks of a two-chunk document have been submitted and the second
\* call is in its exchange.
C20_SecondChunkInFlight ==
    /\ Len(ChunkCalls) = 2
    /\ pc[JobCaller] = "inflight"

\* The part of x before its first "-" or "_".
RECURSIVE PrefixBefore(_)
PrefixBefore(x) ==
    IF x = << >> \/ Head(x) \in {"-", "_"} THEN << >>
    ELSE <<Head(x)>> \o PrefixBefore(Tail(x))

\* normalize(x) = lowercase(prefix_before(x, {"-", "_"}))
Normalize(x) ==
    LET pre == PrefixBefore(x)
    IN  [i \in 1..Len(pre) |-> LowerRune(pre[i])]

\* C19: on the synchronous path and on the job path, the source and target
\* language handed to the translator are normalize(src) and normalize(tgt).
C19_LanguagesNormalized ==
    \A path \in {"sync", "job"} :
        langOut[path].state = "sent" =>
            /\ langOut[path].src = Normalize(langIn[1])
            /\ langOut[path].tgt = Normalize(langIn[2])

\* "E_E" and "e-E" have been sent as "e" and "e" on both paths.
C19_RegionTagsCut ==
    /\ langIn = << <<"E", "_", "E">>, <<"e", "-", "E">> >>
    /\ langOut.sync = [state |-> "sent", src |-> <<"e">>, tgt |-> <<"e">>]
    /\ langOut.job = langOut.sync

\* C21: when the translation of chunk k of a chunked document fails, the
\* job is failed with an error that names chunk k, exactly the chunks 1..k
\* have been submitted (ProcessJob has returned, so none follows), and the
\* k-1 replies received before are not stored: translatedMarkdown is empty.
C21_ChunkFailureFailsJob ==
    (doc.split /\ job.status = "failed") =>
        LET k == Len(doc.sent)
        IN  /\ k >= 1
            /\ doc.errChunk = k
            /\ job.error
            /\ doc.sent = SubSeq(doc.chunks, 1, k)
            /\ Len(doc.out) = k - 1
            /\ doc.pc = "end"
            /\ doc.result = << >>
            /\ ~job.result

\* The second chunk of a document failed after the first was translated.
C21_SecondChunkFailed ==
    /\ doc.split
    /\ job.status = "failed"
    /\ Len(doc.sent) = 2
    /\ Len(doc.out) = 1
    /\ doc.out[1] # << >>

\* C22: for a chunked document of n chunks the progress reported for chunk
\* i is 10 + floor(i * 80 / n), after the 10 reported before the split; the
\* values stay in 10..90, the last chunk reports 90 and the finish 100; for
\* n = 3 the values are 10, 36, 63, 90, 100.
C22_ProgressValues ==
    doc.split =>
        LET n == Len(doc.chunks)
        IN  /\ doc.log[1] = 10
            /\ \A i \in 1..Len(doc.sent) :
                  /\ doc.log[i + 1] = 10 + ((i * 80) \div n)
                  /\ doc.log[i + 1] \in 10..90
            /\ job.percent = doc.log[Len(doc.log)]
            /\ (job.status = "completed" /\ n >= 1) =>
                  /\ Len(doc.log) = n + 2
                  /\ doc.log[n + 1] = 90
                  /\ doc.log[n + 2] = 100
            /\ (job.status = "completed" /\ n = 3) =>
                  doc.log = <<10, 36, 63, 90, 100>>

\* A document of three chunks was translated to the end.
C22_ThreeChunksDone ==
    /\ doc.split
    /\ Len(doc.chunks) = 3
    /\ job.status = "completed"
    /\ Len(doc.log) = 5

\* The paragraphs of a text are non-empty and none is longer than size,
\* so that splitIntoChunks cuts the text at paragraph separators only.
WholeParagraphs(text, size) ==
    \A k \in 1..Len(Paragraphs(text)) :
        /\ Paragraphs(text)[k] # << >>
        /\ Len(Paragraphs(text)[k]) <= size

\* C23: the translatedMarkdown of a chunked document is the replies joined in
\* chunk order with nothing between them, and the chunks carry the
\* paragraph separators of the text: when the text is cut at paragraph
\* separators only, the chunks joined with nothing between them have the
\* paragraphs of the text.
C23_JoinKeepsParagraphBreaks ==
    (doc.split /\ job.status = "completed") =>
        /\ doc.out = [k \in 1..Len(doc.chunks) |-> Translated(doc.chunks[k])]
        /\ doc.result = Join(doc.out, << >>)
        /\ WholeParagraphs(doc.text, doc.chunkSize) =>
              Paragraphs(Join(doc.chunks, << >>)) = Paragraphs(doc.text)

\* Three paragraphs, each within the chunk size, any two of them beyond it.
ThreeParagraphs == <<"a", "\n", "\n", ".", "\n", "\n", "a">>

\* C24: a document of three paragraphs separated by "\n\n", each within the
\* chunk size and any two beyond it, is split into its three paragraphs,
\* submitted in that order, and translatedMarkdown is the three replies
\* joined with "\n\n".
C24_ThreeParagraphDocument ==
    (doc.text = ThreeParagraphs /\ doc.chunkSize = 2
       /\ job.status = "completed") =>
        /\ doc.chunks = <<<<"a">>, <<".">>, <<"a">>>>
        /\ doc.sent = doc.chunks
        /\ doc.result = Join(doc.out, <<"\n", "\n">>)

\* C25: past the test of the markdown, an empty markdown has caused no
\* translator call, a markdown of at most chunkSize bytes (chunkSize
\* included) exactly one call with the whole markdown, and the markdown has
\* been split exactly when it is longer than chunkSize.
C25_ChunkOnlyAboveBudget ==
    doc.pc # "markdown" =>
        /\ doc.text = << >> => (doc.sent = << >> /\ ~doc.split)
        /\ (doc.text # << >> /\ Len(doc.text) <= doc.chunkSize) =>
              (doc.sent = <<doc.text>> /\ ~doc.split)
        /\ doc.split <=> Len(doc.text) > doc.chunkSize

\* A markdown of exactly chunkSize bytes was translated with one call.
C25_ExactlyAtBudget ==
    /\ Len(doc.text) = doc.chunkSize
    /\ job.status = "completed"
    /\ doc.sent = <<doc.text>>
    /\ doc.result = Translated(doc.text)

\* The characters of a text that are not white space, in order.
NonSpace(s) == SelectSeq(s, LAMBDA c : ~IsSpace(c))

\* C26: the chunks splitIntoChunks returns, joined in order, have exactly
\* the non-white-space characters of the text, in the same order.
C26_SplitKeepsContent ==
    doc.pc = "end" =>
        NonSpace(Join(doc.chunks, << >>)) = NonSpace(doc.text)

\* A paragraph was cut into sentences that went to different chunks, and
\* white space of the text was dropped.
C26_SentencesSplit ==
    /\ doc.pc = "end"
    /\ Len(doc.chunks) >= 2
    /\ \E k \in 1..Len(Paragraphs(doc.text)) :
          /\ Len(Paragraphs(doc.text)[k]) > doc.chunkSize
          /\ Len(splitBySentences(Paragraphs(doc.text)[k])) >= 2
    /\ Join(doc.chunks, << >>) # doc.text

\* The sentences of the paragraphs splitIntoChunks cuts into sentences.
LongSentences(text, size) ==
    UNION {{splitBySentences(Paragraphs(text)[k])[s] :
              s \in 1..Len(splitBySentences(Paragraphs(text)[k]))} :
           k \in {p \in 1..Len(Paragraphs(text)) :
                    Len(Paragraphs(text)[p]) > size}}

\* C27: a chunk built from more than one paragraph or sentence is at most
\* maxChunkSize bytes long; a chunk longer than maxChunkSize is one single
\* sentence that is itself longer.
C27_ChunkWithinBudget ==
    doc.pc = "end" =>
        \A k \in 1..Len(doc.chunks) :
            /\ doc.units[k] > 1 => Len(doc.chunks[k]) <= doc.chunkSize
            /\ Len(doc.chunks[k]) > doc.chunkSize =>
                  /\ doc.units[k] = 1
                  /\ doc.chunks[k] \in LongSentences(doc.text, doc.chunkSize)

\* A split with a chunk of several sentences that reaches maxChunkSize
\* exactly and was flushed before the sentence that follows.
C27_FullChunkFlushed ==
    /\ doc.pc = "end"
    /\ \E k \in 1..(Len(doc.chunks) - 1) :
          /\ doc.units[k] > 1
          /\ Len(doc.chunks[k]) = doc.chunkSize
          /\ doc.chunks[k] \notin LongSentences(doc.text, doc.chunkSize)
          /\ doc.chunks[k + 1] \in LongSentences(doc.text, doc.chunkSize)

\* C28: every chunk splitIntoChunks returns is a non-empty string, and for
\* the empty text it returns no chunk.
C28_ChunksNonEmpty ==
    doc.pc = "end" =>
        /\ \A k \in 1..Len(doc.chunks) : doc.chunks[k] # << >>
        /\ doc.text = << >> => doc.chunks = << >>

\* The step is the iteration of CleanupOldJobs on job id.
Visits(id) == gc.pc = "run" /\ id \in gc.todo /\ id \notin gc'.todo

\* What a step may do to the entry of job id when CleanupOldJobs removes
\* the terminal jobs for which old(age, maxAge) holds: the entry goes only
\* in the iteration on it, and goes exactly when the job is terminal with a
\* completion time of that age.
RemovalRule(id, old(_, _)) ==
    LET due == /\ Terminal(jobs[id].status)
               /\ jobs[id].completedAt # -1
               /\ old(gc.now - jobs[id].completedAt, gc.maxAge)
    IN  /\ (jobs[id].inMap /\ ~jobs'[id].inMap) => (Visits(id) /\ due)
        /\ (Visits(id) /\ due) => ~jobs'[id].inMap

AtLeast(age, maxAge) == age >= maxAge

MoreThan(age, maxAge) == age > maxAge

\* C29 as stated: CleanupOldJobs removes exactly the completed and failed
\* jobs whose age since completedAt is at least maxAge, and nothing else
\* removes an entry.
C29_RemovesAtMaxAge ==
    [][\A id \in JobIds : RemovalRule(id, AtLeast)]_vars

\* C29 amended: CleanupOldJobs removes exactly the completed and failed jobs
\* whose age since completedAt is more than maxAge; a job of age maxAge, a
\* younger one, a queued or processing one stays, and nothing else removes
\* an entry.
C29_RemovesOlderThanMaxAge ==
    [][\A id \in JobIds : RemovalRule(id, MoreThan)]_vars

\* CleanupOldJobs has removed a job and has kept a terminal job whose age
\* was exactly maxAge when it was visited.
C29_OneRemovedOneKept ==
    /\ gc.pc = "run"
    /\ \E id \in JobIds :
          /\ ~jobs[id].inMap
          /\ Terminal(jobs[id].status)
          /\ gc.now - jobs[id].completedAt > gc.maxAge
    /\ \E id \in JobIds \ gc.todo :
          /\ jobs[id].inMap
          /\ Terminal(jobs[id].status)
          /\ jobs[id].completedAt # -1
          /\ gc.now - jobs[id].completedAt = gc.maxAge

\* The step reads fields of job id: the iteration of CleanupOldJobs on it,
\* or the field reads of a status request for it.
Reads(id) ==
    \/ Visits(id)
    \/ \E r \in Readers :
          rd[r].id = id /\ rd[r].pc = "fields" /\ rd'[r].pc = "done"

\* C30: the fields of a job are read and written under the job's lock, so
\* no task reads them while the processor is writing them, that is, while
\* the processor holds the lock between its first and its last write.
C30_NoReadWhileWriting ==
    [][\A id \in JobIds : Reads(id) => jobMu[id] # "proc"]_vars

\* C33: a restart replaces the dead Worker's entry of the pool's worker
\* list: the list never holds two records with the same worker id and is
\* never longer than maxWorkers.
C33_RestartReplacesEntry ==
    /\ Len(workers) <= maxWorkers
    /\ \A i, j \in 1..Len(workers) :
          i # j => recs[workers[i]].id # recs[workers[j]].id

\* The step spawns the replacement of the terminated record r: the
\* startWorker call of its monitor, or of the health check visiting it.
SpawnsReplacement(r) ==
    /\ Len(recs') = Len(recs) + 1
    /\ \/ recs[r].mon = "sleep" /\ recs'[r].mon = "send"
       \/ hcPc = "restart" /\ Head(hcCopy) = r /\ workerMu' = "hc"

\* C34: when the replacement of a terminated subprocess is spawned, the
\* busy flag of the terminated Worker record is false.
C34_BusyClearAtRestart ==
    [][\A r \in 1..Len(recs) : SpawnsReplacement(r) => ~recs[r].busy]_vars

\* Worker tokens in existence: in the ready channel, held by Translate
\* calls, being enqueued by a startWorker.
Tokens ==
    Len(workerReady) + Cardinality(Holders) + (IF pending # 0 THEN 1 ELSE 0)

\* C37: the tokens in existence never exceed the capacity maxWorkers of the
\* ready channel, so no send to it blocks: neither the release of a
\* Translate call nor the enqueue of startWorker under the write lock.
C37_TokensWithinCapacity ==
    /\ Tokens <= maxWorkers
    /\ \A c \in Callers : pc[c] = "send" => ~ChanFull
    /\ pending # 0 => ~ChanFull

\* Calls that are past their RecordTranslationRequest.
Recorded == {c \in Callers : pc[c] \in {"release", "send", "done"}}

\* C39: every Translate call records exactly one request outcome before it
\* returns, on every exit path: the success and error counts add up to the
\* calls past their record (all the returned ones among them), and the
\* success count is the number of calls the worker answered success=true.
C39_OneOutcomePerCall ==
    /\ metrics.reqSuccess + metrics.reqError = Cardinality(Recorded)
    /\ \A c \in Callers : pc[c] = "done" => c \in Recorded /\ res[c] # "none"
    /\ metrics.reqSuccess =
          Cardinality({c \in Callers : res[c] = "success"})
    /\ \A c \in Callers : c \notin Recorded => res[c] = "none"

\* C39 as stated: the success count plus the error count always equals
\* the number of Translate calls that have returned.
C39_CountsEqualReturned ==
    metrics.reqSuccess + metrics.reqError =
        Cardinality({c \in Callers : pc[c] = "done"})

\* Two calls have returned, by different exit paths: one with the worker's
\* reply, one without having received a Worker.
C39_TwoExitPaths ==
    \E c, d \in Callers :
        /\ pc[c] = "done" /\ res[c] = "success"
        /\ pc[d] = "done" /\ res[d] \in {"timeout", "cancelled"}
        /\ metrics.reqSuccess = 1
        /\ metrics.reqError = 1

\* startWorker(id) has never succeeded: no Worker record with that id exists.
NeverStarted(id) == \A r \in 1..Len(recs) : recs[r].id # id

\* C36: a worker id whose start failed during pool construction is retried
\* later: while the id has no Worker, a goroutine that is going to call
\* startWorker(id) exists.
C36_InitialFailureRetried ==
    \A id \in WorkerIds : NeverStarted(id) => RestartPending(id)

\* An id that was not started at construction is never started.
C36_NeverStartedStays ==
    [][\A id \in WorkerIds : NeverStarted(id) => NeverStarted(id)']_vars

\* The Worker records with identifier id.
RecordsOf(id) == {r \in 1..Len(recs) : recs[r].id = id}

\* The records of id whose watcher has seen the subprocess terminate (its
\* Wait has returned).
Watched(id) ==
    {r \in RecordsOf(id) : recs[r].mon \in {"sleep", "send", "done"}}

\* The subprocess of record r has terminated and no watcher will ever see
\* it: the startWorker that spawned it is still at its channel send, the
\* channel is full, and every Translate call has returned or is itself
\* blocked at its release, so no token will be taken out.
Unwatched(r) ==
    /\ recs[r].proc = "exited"
    /\ recs[r].mon = "none"
    /\ pending = r
    /\ ChanFull
    /\ \A c \in Callers : pc[c] \in {"send", "done"}

\* C35: each termination of a worker subprocess increments the restart
\* counter of its id exactly once: the counter of an id is the number of
\* terminations of that id a watcher has seen, and no termination stays
\* unseen.
C35_RestartsCountTerminations ==
    \A id \in WorkerIds :
        /\ metrics.restarts[id] = Cardinality(Watched(id))
        /\ \A r \in RecordsOf(id) : ~Unwatched(r)

\* A termination no watcher will see stays unseen.
C35_UnwatchedStays ==
    [][\A r \in 1..Len(recs) : Unwatched(r) => Unwatched(r)']_vars

\* C35, the counting alone: the counter of an id is the number of its
\* terminations seen by a watcher, never more than its terminations.
C35_CountedOncePerWatcher ==
    \A id \in WorkerIds :
        /\ metrics.restarts[id] = Cardinality(Watched(id))
        /\ \A r \in Watched(id) : recs[r].proc = "exited"

\* A startWorker holds workerMu at its channel send, the channel is full,
\* and no Translate call is left that could take a token out of it: the
\* job's processor has ended or its call is itself blocked at its release.
StartBlocked ==
    /\ pending # 0
    /\ workerMu # "free"
    /\ ChanFull
    /\ jobPc = "end" \/ pc[JobCaller] = "send"

\* Close is at the Lock of workerMu that the blocked startWorker holds, or
\* at wg.Wait while the blocked startWorker is the one of manageWorkers'
\* health check.
CloseStuck ==
    /\ StartBlocked
    /\ \/ closePc = "lock"
       \/ closePc = "wait" /\ workerMu = "hc"

\* C38: Close never ends up where it cannot return: it is not blocked for
\* ever on workerMu, nor on wg.Wait for manageWorkers, by a restart that is
\* in progress when Close is called.
C38_CloseNeverStuck == ~CloseStuck

\* A Close call blocked by such a restart stays where it is.
C38_StuckStays ==
    [][CloseStuck => (closePc' = closePc /\ CloseStuck')]_vars

\* C40: once a job is Completed or Failed, the processor changes none of
\* its fields any more: status, error, result, percent and the two
\* timestamps keep the values they had when the job became terminal.
C40_TerminalJobFrozen ==
    [][job.status \in {"completed", "failed"} => job' = job]_vars

\* The processor has ended on a job that failed at its second translator
\* call, after the first one succeeded.
C40_EndedAfterFailure ==
    /\ job.status = "failed"
    /\ job.error
    /\ jobPc = "end"
    /\ Len(calls) = 2
    /\ replies = 2

\* The request of the handler lacks its correlation id, its source
\* language or its target language.
Incomplete(req) ==
    req.jobId = "" \/ req.source = << >> \/ req.target = << >>

\* C31: a request whose correlation id, source or target language is empty
\* is rejected with an invalid-argument failure before any translator call
\* is made, without creating a job or changing any other state.
C31_IncompleteRequestRejected ==
    /\ []((rpc.pc # "idle" /\ Incomplete(rpc.req)) =>
            /\ rpc.calls = << >>
            /\ rpc.pc \in {"validate", "done"}
            /\ rpc.pc = "done" =>
                  /\ rpc.resp.kind = "error"
                  /\ rpc.resp.code = "InvalidArgument"
            /\ job = NoJob
            /\ \A id \in JobIds : jobs[id] = Absent)
    /\ [][rpc' # rpc =>
            UNCHANGED <<poolVars, hcVars, callVars, metrics, closeVars,
                        jobVars, langVars, docVars, regVars>>]_vars

\* A request with its id and target but without its source language (the
\* last of the three checks) has been rejected.
C31_MissingSourceRejected ==
    /\ rpc.pc = "done"
    /\ rpc.req.jobId # ""
    /\ rpc.req.target # << >>
    /\ rpc.req.source = << >>
    /\ rpc.req.translator
    /\ rpc.req.primitive = "TITLE"
    /\ rpc.req.title # ""
    /\ rpc.resp.errorMessage = "source_language is required"

\* C32: when a translator call of the handler fails, for the title or for
\* the markdown, the handler returns a normal response with success=false,
\* a non-empty error message and the correlation id of the request, not an
\* RPC-level error, and makes no further translator call.
C32_FailedCallAnswered ==
    \A i \in 1..Len(rpc.calls) :
        ~rpc.calls[i].ok =>
            /\ i = Len(rpc.calls)
            /\ rpc.pc = "done"
            /\ rpc.resp.kind = "response"
            /\ ~rpc.resp.success
            /\ rpc.resp.errorMessage # ""
            /\ rpc.resp.jobId = rpc.req.jobId

\* The markdown's call has failed with an empty error text after the
\* title's call succeeded.
C32_MarkdownFailedAfterTitle ==
    /\ Len(rpc.calls) = 2
    /\ rpc.calls[1].ok
    /\ ~rpc.calls[2].ok
    /\ rpc.req.jobId = "j2"
    /\ rpc.resp.errorMessage = "Markdown translation failed: "

====
